---- MODULE Spec2Model ----
(***************************************************************************)
(* A model of ss9k (SuperScreecher9000): the hotkey capture front-end and  *)
(* its toggle-timeout tasks (main.rs), the held-key repeat thread and the  *)
(* key chords of the command interpreter (commands.rs), and the voice      *)
(* activity segmenter (vad.rs).                                            *)
(*                                                                         *)
(* Each subsystem has its own specification over its own variables; the    *)
(* variables of the other subsystems keep their initial values.            *)
(***************************************************************************)
EXTENDS Integers, Sequences, FiniteSets, TLC

VARIABLES
    \* ---- main.rs: capture gate, hotkey callback, timeout tasks, processor
    RECORDING,          \* static RECORDING: AtomicBool
    RECORDING_SESSION,  \* static RECORDING_SESSION: AtomicU64
    CALLBACK_COUNT,     \* static CALLBACK_COUNT: AtomicUsize
    config,             \* Arc<ArcSwap<Config>>: the fields the callback reads
    buffer,             \* audio_buffer: Arc<Mutex<Vec<f32>>>, one tag per sample
    kb,                 \* the rdev listener thread: position in the callback
    key_down,           \* the physical hotkey is down (environment)
    timeouts,           \* the live toggle-timeout threads
    stream,             \* the cpal input callback: position and sample in hand
    audio_tx,           \* mpsc channel audio_tx -> audio_rx
    processor,          \* the processor thread: position and job in hand
    recording_id,       \* history: number of recordings started so far
    buffer_rec,         \* history: the recording that last cleared the buffer
    last_close,         \* history: the last RECORDING.store(false): by whom, what it
                        \* overwrote, the storing task's session_id, the session then
    interpreted,        \* history: the last two recordings handed to execute_command
    \* ---- commands.rs: held keys and the repeat thread
    HELD_KEYS,          \* static HELD_KEYS: Mutex<HashSet<HeldKey>>
    HOLD_THREAD_RUNNING,\* static HOLD_THREAD_RUNNING: AtomicBool
    hold_threads,       \* the repeat threads: position and snapshot of each
    worker,             \* the thread running execute_hold / execute_release
    clicked,            \* history: the keys the last repeat cycle clicked
    enigo_failed,       \* history: a repeat thread failed to create its Enigo
    released,           \* history, kept when on: the keys released while a repeat
                        \* thread slept and not named by a hold command since
    \* ---- commands.rs: key chords through the worker's Enigo handle
    pressed,            \* keys the worker's Enigo has pressed and not released
    keylog,             \* history: the key actions of the last command, in order
    cmd_last,           \* history: the last command, its entry state and its result
    LAST_COMMAND,       \* static LAST_COMMAND: Mutex<Option<String>>
    LAST_TYPED_LEN,     \* static LAST_TYPED_LEN: AtomicUsize
    CURRENT_MODE,       \* static CURRENT_MODE: Mutex<CaseMode>
    typed,              \* history: the text enigo.text last typed, and whether the
                        \* last command typed it
    \* ---- vad.rs: the voice activity detector's state machine
    vad,                \* struct Vad: its fields (the detector aside)
    now,                \* Instant::now(), in ms
    fed,                \* history: samples feed has taken in so far (stream position)
    feeds,              \* history: number of feed calls that took samples in
    events,             \* the events the last call returned
    utt,                \* history: the utterance under way since the last crossing
    \* ---- commands.rs: the loops of normalize_aliases and expand_env_vars
    subst,              \* one call of normalize_aliases: its locals and position
    expand              \* one call of execute_custom_command: its locals and position

hotkeyVars == <<RECORDING, RECORDING_SESSION, CALLBACK_COUNT, config, buffer, kb,
                key_down, timeouts, stream, audio_tx, processor, recording_id,
                buffer_rec, last_close, interpreted>>

holdVars == <<HELD_KEYS, HOLD_THREAD_RUNNING, hold_threads, worker, clicked,
              enigo_failed, released>>

cmdVars == <<pressed, keylog, cmd_last, LAST_COMMAND, LAST_TYPED_LEN, CURRENT_MODE,
             typed>>

vadVars == <<vad, now, fed, feeds, events, utt>>

scanVars == <<subst, expand>>

vars == <<hotkeyVars, holdVars, cmdVars, vadVars, scanVars>>

\* what the actions of one subsystem leave alone
notHotkey == <<holdVars, cmdVars, vadVars, scanVars>>
notHold == <<hotkeyVars, cmdVars, vadVars, scanVars>>
notCmd == <<hotkeyVars, holdVars, vadVars, scanVars>>
notVad == <<hotkeyVars, holdVars, cmdVars, scanVars>>
notScan == <<hotkeyVars, holdVars, cmdVars, vadVars>>

(***************************************************************************)
(* Bounds of the model.                                                    *)
(***************************************************************************)
\* recordings started in one behaviour
MaxRecordings == 2
\* samples the capture buffer holds
MaxBuffer == 1
\* audio callbacks counted between two resets
MaxCallbacks == 1
\* repeat threads that can be alive at once
MaxHoldThreads == 2
\* largest repetition count of a command
MaxCount == 2
\* key actions of one command that may fail: the first ones
MaxFailAt == 4
\* feed calls in one behaviour
MaxFeeds == 4
\* calls of feed with a long slice in one run
MaxLongFeeds == 16
\* utterances put on the queue in one behaviour
MaxUtterances == 3
\* characters new_result may hold in normalize_aliases
MaxNewResult == 6
\* characters result may hold in expand_env_vars
MaxExpanded == 5
\* clock steps in one behaviour
MaxTicks == 2
\* length of one clock step, in ms
TickMs == 1300
(***************************************************************************)
(* main.rs: hotkey capture                                                 *)
(***************************************************************************)
HotkeyModes == {"hold", "toggle"}
ToggleTimeouts == {0, 5}

NoAudio == [rec |-> 0, samples |-> <<>>]

KbIdle == [pc |-> "idle", is_toggle_mode |-> FALSE, toggle_timeout |-> 0,
           session_id |-> 0, audio_data |-> NoAudio]

NoClose == [by |-> "none", was_recording |-> FALSE, session_id |-> 0, session |-> 0]

\* Config::default(): hotkey_mode "hold", toggle_timeout_secs 0
DefaultConfig == [hotkey_mode |-> "hold", toggle_timeout_secs |-> 0]

\* the state after main() has set up the stream, the processor and the listener,
\* for the configuration c read from disk
HotkeyStart(c) ==
    /\ RECORDING = FALSE
    /\ RECORDING_SESSION = 0
    /\ CALLBACK_COUNT = 0
    /\ config = c
    /\ buffer = <<>>
    /\ kb = KbIdle
    /\ key_down = FALSE
    /\ timeouts = {}
    /\ stream = [pc |-> "idle", tag |-> 0]
    /\ audio_tx = <<>>
    /\ processor = [pc |-> "recv", audio_data |-> NoAudio]
    /\ recording_id = 0
    /\ buffer_rec = 0
    /\ last_close = NoClose
    /\ interpreted = <<>>

\* The config watcher swaps the configuration (config_for_watcher.store).
ConfigReload ==
    /\ \E c \in [hotkey_mode : HotkeyModes, toggle_timeout_secs : ToggleTimeouts] :
          /\ c # config
          /\ config' = c
    /\ UNCHANGED notHotkey
    /\ UNCHANGED <<RECORDING, RECORDING_SESSION, CALLBACK_COUNT, buffer, kb, key_down,
                   timeouts, stream, audio_tx, processor, recording_id, buffer_rec,
                   last_close, interpreted>>

\* callback entry: the configuration is loaded afresh on each event.
LoadConfig(pc) ==
    [KbIdle EXCEPT !.pc = pc,
                   !.is_toggle_mode = (config.hotkey_mode = "toggle"),
                   !.toggle_timeout = config.toggle_timeout_secs]

\* EventType::KeyPress(hotkey); a key that stays down auto-repeats the press.
KeyPress ==
    /\ kb.pc = "idle"
    /\ kb' = LoadConfig("press")
    /\ key_down' = TRUE
    /\ UNCHANGED notHotkey
    /\ UNCHANGED <<RECORDING, RECORDING_SESSION, CALLBACK_COUNT, config, buffer,
                   timeouts, stream, audio_tx, processor, recording_id, buffer_rec,
                   last_close, interpreted>>

\* EventType::KeyRelease(hotkey)
KeyRelease ==
    /\ kb.pc = "idle"
    /\ key_down
    /\ kb' = LoadConfig("release")
    /\ key_down' = FALSE
    /\ UNCHANGED notHotkey
    /\ UNCHANGED <<RECORDING, RECORDING_SESSION, CALLBACK_COUNT, config, buffer,
                   timeouts, stream, audio_tx, processor, recording_id, buffer_rec,
                   last_close, interpreted>>

\* RECORDING.load on a press: toggle stops or starts, hold starts when not recording.
\* a press that stops a recording in hold behaviour too
PressTargetToggling(is_toggle_mode, recording) ==
    IF recording THEN "stop" ELSE "start_clear"

PressTarget(is_toggle_mode, recording) ==
    IF is_toggle_mode
    THEN (IF recording THEN "stop" ELSE "start_clear")
    ELSE (IF recording THEN "idle" ELSE "start_clear")

KbPressLoad ==
    /\ kb.pc = "press"
    /\ LET to == PressTarget(kb.is_toggle_mode, RECORDING) IN
          /\ to = "start_clear" => recording_id < MaxRecordings
          /\ kb' = IF to = "idle" THEN KbIdle ELSE [kb EXCEPT !.pc = to]
    /\ UNCHANGED notHotkey
    /\ UNCHANGED <<RECORDING, RECORDING_SESSION, CALLBACK_COUNT, config, buffer,
                   key_down, timeouts, stream, audio_tx, processor, recording_id,
                   buffer_rec, last_close, interpreted>>

\* RECORDING.load on a release: only hold mode stops.
KbReleaseLoad ==
    /\ kb.pc = "release"
    /\ kb' = IF ~kb.is_toggle_mode /\ RECORDING THEN [kb EXCEPT !.pc = "stop"] ELSE KbIdle
    /\ UNCHANGED notHotkey
    /\ UNCHANGED <<RECORDING, RECORDING_SESSION, CALLBACK_COUNT, config, buffer,
                   key_down, timeouts, stream, audio_tx, processor, recording_id,
                   buffer_rec, last_close, interpreted>>

\* RECORDING.store(false) by the hotkey callback
KbStop ==
    /\ kb.pc = "stop"
    /\ RECORDING' = FALSE
    /\ last_close' = [by |-> "hotkey", was_recording |-> RECORDING, session_id |-> 0,
                      session |-> RECORDING_SESSION]
    /\ kb' = [kb EXCEPT !.pc = "send_clone"]
    /\ UNCHANGED notHotkey
    /\ UNCHANGED <<RECORDING_SESSION, CALLBACK_COUNT, config, buffer, key_down,
                   timeouts, stream, audio_tx, processor, recording_id, buffer_rec,
                   interpreted>>

\* send_audio, first half: buffer.lock(), buf.clone()
CloneBuffer == [rec |-> buffer_rec, samples |-> buffer]

\* send_audio: an empty clone is not sent.
AfterClone(audio_data) == IF audio_data.samples # <<>> THEN "send_tx" ELSE "done"

KbSendClone ==
    /\ kb.pc = "send_clone"
    /\ kb' = IF AfterClone(CloneBuffer) = "send_tx"
             THEN [kb EXCEPT !.pc = "send_tx", !.audio_data = CloneBuffer]
             ELSE KbIdle
    /\ UNCHANGED notHotkey
    /\ UNCHANGED <<RECORDING, RECORDING_SESSION, CALLBACK_COUNT, config, buffer,
                   key_down, timeouts, stream, audio_tx, processor, recording_id,
                   buffer_rec, last_close, interpreted>>

\* send_audio, second half: tx.send(audio_data)
KbSendTx ==
    /\ kb.pc = "send_tx"
    /\ audio_tx' = Append(audio_tx, kb.audio_data)
    /\ kb' = KbIdle
    /\ UNCHANGED notHotkey
    /\ UNCHANGED <<RECORDING, RECORDING_SESSION, CALLBACK_COUNT, config, buffer,
                   key_down, timeouts, stream, processor, recording_id, buffer_rec,
                   last_close, interpreted>>

\* start of a recording: buf.clear()
KbStartClear ==
    /\ kb.pc = "start_clear"
    /\ buffer' = <<>>
    /\ recording_id' = recording_id + 1
    /\ buffer_rec' = recording_id + 1
    /\ kb' = [kb EXCEPT !.pc = "start_count"]
    /\ UNCHANGED notHotkey
    /\ UNCHANGED <<RECORDING, RECORDING_SESSION, CALLBACK_COUNT, config, key_down,
                   timeouts, stream, audio_tx, processor, last_close, interpreted>>

\* CALLBACK_COUNT.store(0); only the toggle branch goes on to the session counter.
KbStartCount ==
    /\ kb.pc = "start_count"
    /\ CALLBACK_COUNT' = 0
    /\ kb' = [kb EXCEPT !.pc = IF kb.is_toggle_mode THEN "start_session" ELSE "start_store"]
    /\ UNCHANGED notHotkey
    /\ UNCHANGED <<RECORDING, RECORDING_SESSION, config, buffer, key_down, timeouts,
                   stream, audio_tx, processor, recording_id, buffer_rec, last_close,
                   interpreted>>

\* let session_id = RECORDING_SESSION.fetch_add(1) + 1
KbStartSession ==
    /\ kb.pc = "start_session"
    /\ RECORDING_SESSION' = RECORDING_SESSION + 1
    /\ kb' = [kb EXCEPT !.pc = "start_store", !.session_id = RECORDING_SESSION + 1]
    /\ UNCHANGED notHotkey
    /\ UNCHANGED <<RECORDING, CALLBACK_COUNT, config, buffer, key_down, timeouts,
                   stream, audio_tx, processor, recording_id, buffer_rec, last_close,
                   interpreted>>

\* the thread spawned when toggle_timeout > 0; it starts in its sleep
NewTimeout(session_id) ==
    [session_id |-> session_id, pc |-> "sleep", audio_data |-> NoAudio]

SpawnsTimeout(k) == k.is_toggle_mode /\ k.toggle_timeout > 0

\* RECORDING.store(true), then the spawn of the timeout thread
KbStartStore ==
    /\ kb.pc = "start_store"
    /\ RECORDING' = TRUE
    /\ timeouts' = IF SpawnsTimeout(kb)
                   THEN timeouts \cup {NewTimeout(kb.session_id)}
                   ELSE timeouts
    /\ kb' = KbIdle
    /\ UNCHANGED notHotkey
    /\ UNCHANGED <<RECORDING_SESSION, CALLBACK_COUNT, config, buffer, key_down,
                   stream, audio_tx, processor, recording_id, buffer_rec, last_close,
                   interpreted>>

\* the timeout thread's guard, first conjunct: RECORDING_SESSION.load() == session_id
SessionCurrent(t) == RECORDING_SESSION = t.session_id

\* sleep is over; the first conjunct of the guard is evaluated
TimeoutWake(t) ==
    /\ t.pc = "sleep"
    /\ timeouts' = IF SessionCurrent(t)
                   THEN (timeouts \ {t}) \cup {[t EXCEPT !.pc = "check_recording"]}
                   ELSE timeouts \ {t}
    /\ UNCHANGED notHotkey
    /\ UNCHANGED <<RECORDING, RECORDING_SESSION, CALLBACK_COUNT, config, buffer, kb,
                   key_down, stream, audio_tx, processor, recording_id, buffer_rec,
                   last_close, interpreted>>

\* second conjunct of the guard: RECORDING.load()
TimeoutCheck(t) ==
    /\ t.pc = "check_recording"
    /\ timeouts' = IF RECORDING
                   THEN (timeouts \ {t}) \cup {[t EXCEPT !.pc = "store"]}
                   ELSE timeouts \ {t}
    /\ UNCHANGED notHotkey
    /\ UNCHANGED <<RECORDING, RECORDING_SESSION, CALLBACK_COUNT, config, buffer, kb,
                   key_down, stream, audio_tx, processor, recording_id, buffer_rec,
                   last_close, interpreted>>

\* RECORDING.store(false) by the timeout thread
TimeoutStore(t) ==
    /\ t.pc = "store"
    /\ RECORDING' = FALSE
    /\ last_close' = [by |-> "timeout", was_recording |-> RECORDING,
                      session_id |-> t.session_id, session |-> RECORDING_SESSION]
    /\ timeouts' = (timeouts \ {t}) \cup {[t EXCEPT !.pc = "send_clone"]}
    /\ UNCHANGED notHotkey
    /\ UNCHANGED <<RECORDING_SESSION, CALLBACK_COUNT, config, buffer, kb, key_down,
                   stream, audio_tx, processor, recording_id, buffer_rec, interpreted>>

\* send_audio_timeout(), first half
TimeoutSendClone(t) ==
    /\ t.pc = "send_clone"
    /\ timeouts' = IF AfterClone(CloneBuffer) = "send_tx"
                   THEN (timeouts \ {t}) \cup
                        {[t EXCEPT !.pc = "send_tx", !.audio_data = CloneBuffer]}
                   ELSE timeouts \ {t}
    /\ UNCHANGED notHotkey
    /\ UNCHANGED <<RECORDING, RECORDING_SESSION, CALLBACK_COUNT, config, buffer, kb,
                   key_down, stream, audio_tx, processor, recording_id, buffer_rec,
                   last_close, interpreted>>

\* send_audio_timeout(), second half; the thread ends
TimeoutSendTx(t) ==
    /\ t.pc = "send_tx"
    /\ audio_tx' = Append(audio_tx, t.audio_data)
    /\ timeouts' = timeouts \ {t}
    /\ UNCHANGED notHotkey
    /\ UNCHANGED <<RECORDING, RECORDING_SESSION, CALLBACK_COUNT, config, buffer, kb,
                   key_down, stream, processor, recording_id, buffer_rec, last_close,
                   interpreted>>

TimeoutStep ==
    \E t \in timeouts :
        \/ TimeoutWake(t)
        \/ TimeoutCheck(t)
        \/ TimeoutStore(t)
        \/ TimeoutSendClone(t)
        \/ TimeoutSendTx(t)

\* the input callback: CALLBACK_COUNT.fetch_add(1)
StreamCount ==
    /\ stream.pc = "idle"
    /\ CALLBACK_COUNT < MaxCallbacks
    /\ Len(buffer) < MaxBuffer
    /\ CALLBACK_COUNT' = CALLBACK_COUNT + 1
    /\ stream' = [stream EXCEPT !.pc = "counted"]
    /\ UNCHANGED notHotkey
    /\ UNCHANGED <<RECORDING, RECORDING_SESSION, config, buffer, kb, key_down,
                   timeouts, audio_tx, processor, recording_id, buffer_rec, last_close,
                   interpreted>>

\* if RECORDING.load(): the sample in hand is tagged with the recording under way
StreamLoad ==
    /\ stream.pc = "counted"
    /\ stream' = IF RECORDING
                 THEN [pc |-> "push", tag |-> recording_id]
                 ELSE [pc |-> "idle", tag |-> 0]
    /\ UNCHANGED notHotkey
    /\ UNCHANGED <<RECORDING, RECORDING_SESSION, CALLBACK_COUNT, config, buffer, kb,
                   key_down, timeouts, audio_tx, processor, recording_id, buffer_rec,
                   last_close, interpreted>>

\* buffer.lock(), buf.push(mono sample)
StreamPush ==
    /\ stream.pc = "push"
    /\ buffer' = Append(buffer, stream.tag)
    /\ stream' = [pc |-> "idle", tag |-> 0]
    /\ UNCHANGED notHotkey
    /\ UNCHANGED <<RECORDING, RECORDING_SESSION, CALLBACK_COUNT, config, kb, key_down,
                   timeouts, audio_tx, processor, recording_id, buffer_rec, last_close,
                   interpreted>>

\* for audio_data in audio_rx
ProcRecv ==
    /\ processor.pc = "recv"
    /\ audio_tx # <<>>
    /\ processor' = [pc |-> "busy", audio_data |-> Head(audio_tx)]
    /\ audio_tx' = Tail(audio_tx)
    /\ UNCHANGED notHotkey
    /\ UNCHANGED <<RECORDING, RECORDING_SESSION, CALLBACK_COUNT, config, buffer, kb,
                   key_down, timeouts, stream, recording_id, buffer_rec, last_close,
                   interpreted>>

\* resample_audio, transcribe, execute_command: only a non-empty transcript of a
\* job that resampled and transcribed without error reaches execute_command.
ProcOutcomes == {"text", "empty", "resample_error", "transcribe_error"}

\* the history keeps the two most recent entries
Remember(h, rec) == IF Len(h) < 2 THEN Append(h, rec) ELSE <<h[2], rec>>

ProcFinish ==
    /\ processor.pc = "busy"
    /\ \E outcome \in ProcOutcomes :
          interpreted' = IF outcome = "text"
                         THEN Remember(interpreted, processor.audio_data.rec)
                         ELSE interpreted
    /\ processor' = [pc |-> "recv", audio_data |-> NoAudio]
    /\ UNCHANGED notHotkey
    /\ UNCHANGED <<RECORDING, RECORDING_SESSION, CALLBACK_COUNT, config, buffer, kb,
                   key_down, timeouts, stream, audio_tx, recording_id, buffer_rec,
                   last_close>>

NextHotkey ==
    \/ ConfigReload
    \/ KeyPress
    \/ KeyRelease
    \/ KbPressLoad
    \/ KbReleaseLoad
    \/ KbStop
    \/ KbSendClone
    \/ KbSendTx
    \/ KbStartClear
    \/ KbStartCount
    \/ KbStartSession
    \/ KbStartStore
    \/ TimeoutStep
    \/ StreamCount
    \/ StreamLoad
    \/ StreamPush
    \/ ProcRecv
    \/ ProcFinish


(***************************************************************************)
(* commands.rs / lookups.rs: held keys and the repeat thread               *)
(***************************************************************************)
\* enigo::Key values: Unicode(ch) carries a character, the others do not.
Unicode(ch) == [kind |-> "Unicode", ch |-> ch]
Named(kind) == [kind |-> kind, ch |-> ""]

None == [kind |-> "None", ch |-> ""]

\* the key names of the model: two letters, two keys without a value, an unknown name
KeyNames == {"w", "a", "space", "shift", "bogus"}

parse_key_name(name) ==
    CASE name \in {"w", "a"} -> Unicode(name)
      [] name = "space" -> Named("Space")
      [] name = "shift" -> Named("Shift")
      [] OTHER -> None

\* impl PartialEq / Hash for HeldKey: std::mem::discriminant of the wrapped key
discriminant(key) == key.kind

\* HashSet::insert: an equal member is kept, the new value is dropped
HeldInsert(held, key) ==
    IF \E h \in held : discriminant(h) = discriminant(key) THEN held ELSE held \cup {key}

\* a HashSet::remove that removes nothing
HeldRemoveNothing(held, key) == held

\* HashSet::remove: removes the member equal to the key
HeldRemove(held, key) == {h \in held : discriminant(h) # discriminant(key)}

HoldThreadIds == 1..MaxHoldThreads

NoThread == [pc |-> "none", keys |-> {}]

\* the threads that exist, and those that still own the running flag
Alive == {t \in HoldThreadIds : hold_threads[t].pc # "none"}

Running == {t \in HoldThreadIds : hold_threads[t].pc \in {"start", "loop", "click", "sleep", "exit"}}

\* the threads that will click the held keys again
Repeating == {t \in HoldThreadIds : hold_threads[t].pc \in {"start", "loop", "click", "sleep"}}

WorkerIdle == [pc |-> "idle", key |-> None]

\* the members of the set that are equal, as HeldKey, to the key
EqualMembers(held, key) == {h \in held : discriminant(h) = discriminant(key)}

Sleeping == {t \in HoldThreadIds : hold_threads[t].pc = "sleep"}

\* the history of releases after a command has released the keys in `gone`
ReleasedAfter(gone) ==
    IF released.on /\ Sleeping # {}
    THEN [released EXCEPT !.keys = released.keys \cup gone]
    ELSE released

HoldStartWith(history) ==
    /\ HELD_KEYS = {}
    /\ HOLD_THREAD_RUNNING = FALSE
    /\ hold_threads = [t \in HoldThreadIds |-> NoThread]
    /\ worker = WorkerIdle
    /\ clicked = {}
    /\ enigo_failed = FALSE
    /\ released = [on |-> history, keys |-> {}]

HoldStart == HoldStartWith(FALSE)

\* execute_hold up to the insert; an unknown key name returns Ok(false)
ExecuteHoldInsert ==
    /\ worker.pc = "idle"
    /\ \E name \in KeyNames :
          LET key == parse_key_name(name) IN
          IF key = None
          THEN UNCHANGED <<HELD_KEYS, worker, released>>
          ELSE /\ HELD_KEYS' = HeldInsert(HELD_KEYS, key)
               /\ worker' = [pc |-> "hold_spawn", key |-> key]
               /\ released' = [released EXCEPT !.keys = released.keys \ {key}]
    /\ UNCHANGED <<HOLD_THREAD_RUNNING, hold_threads, clicked, enigo_failed>>
    /\ UNCHANGED notHold

\* a test-and-set that succeeds whatever the flag holds
CompareExchangeBlind(running) == TRUE

\* HOLD_THREAD_RUNNING.compare_exchange(false, true).is_ok()
CompareExchangeOk(running) == running = FALSE

\* spawn_hold_thread, called at the end of execute_hold
ExecuteHoldSpawn ==
    /\ worker.pc = "hold_spawn"
    /\ IF CompareExchangeOk(HOLD_THREAD_RUNNING)
       THEN /\ HOLD_THREAD_RUNNING' = TRUE
            /\ \E t \in HoldThreadIds :
                  /\ hold_threads[t].pc = "none"
                  /\ \A u \in HoldThreadIds : u < t => hold_threads[u].pc # "none"
                  /\ hold_threads' = [hold_threads EXCEPT ![t] = [pc |-> "start", keys |-> {}]]
       ELSE UNCHANGED <<HOLD_THREAD_RUNNING, hold_threads>>
    /\ worker' = WorkerIdle
    /\ UNCHANGED <<HELD_KEYS, clicked, enigo_failed>>
    /\ UNCHANGED released
    /\ UNCHANGED notHold

\* execute_release; an unknown key name returns Ok(false)
ExecuteRelease ==
    /\ worker.pc = "idle"
    /\ \E name \in KeyNames :
          LET key == parse_key_name(name) IN
          IF key = None
          THEN UNCHANGED <<HELD_KEYS, released>>
          ELSE /\ HELD_KEYS' = HeldRemove(HELD_KEYS, key)
               /\ released' = ReleasedAfter(EqualMembers(HELD_KEYS, key))
    /\ UNCHANGED <<HOLD_THREAD_RUNNING, hold_threads, worker, clicked, enigo_failed>>
    /\ UNCHANGED notHold

\* execute_release_all
ExecuteReleaseAll ==
    /\ worker.pc = "idle"
    /\ HELD_KEYS' = {}
    /\ released' = ReleasedAfter(HELD_KEYS)
    /\ UNCHANGED <<HOLD_THREAD_RUNNING, hold_threads, worker, clicked, enigo_failed>>
    /\ UNCHANGED notHold

\* the spawned closure: Enigo::new; on failure the flag is cleared and the closure returns
HoldThreadStart(t) ==
    /\ hold_threads[t].pc = "start"
    /\ \E created \in BOOLEAN :
          IF created
          THEN /\ hold_threads' = [hold_threads EXCEPT ![t].pc = "loop"]
               /\ UNCHANGED <<HOLD_THREAD_RUNNING, enigo_failed>>
          ELSE /\ hold_threads' = [hold_threads EXCEPT ![t].pc = "stopped"]
               /\ HOLD_THREAD_RUNNING' = FALSE
               /\ enigo_failed' = TRUE
    /\ UNCHANGED <<HELD_KEYS, worker, clicked>>
    /\ UNCHANGED released
    /\ UNCHANGED notHold

\* top of the loop: HELD_KEYS.lock(); an empty set breaks out, else the keys are copied
AfterSnapshot(held) == IF held = {} THEN "exit" ELSE "click"

HoldThreadSnapshot(t) ==
    /\ hold_threads[t].pc = "loop"
    /\ hold_threads' = [hold_threads EXCEPT ![t] =
                           [pc |-> AfterSnapshot(HELD_KEYS), keys |-> HELD_KEYS]]
    /\ UNCHANGED <<HELD_KEYS, HOLD_THREAD_RUNNING, worker, clicked, enigo_failed>>
    /\ UNCHANGED released
    /\ UNCHANGED notHold

\* for key in &keys: enigo.key(key, Click); an error is only logged
HoldThreadClick(t) ==
    /\ hold_threads[t].pc = "click"
    /\ clicked' = hold_threads[t].keys
    /\ hold_threads' = [hold_threads EXCEPT ![t].pc = "sleep"]
    /\ UNCHANGED <<HELD_KEYS, HOLD_THREAD_RUNNING, worker, enigo_failed>>
    /\ UNCHANGED released
    /\ UNCHANGED notHold

\* std::thread::sleep(repeat_ms), then the next iteration
HoldThreadSleep(t) ==
    /\ hold_threads[t].pc = "sleep"
    /\ hold_threads' = [hold_threads EXCEPT ![t] = [pc |-> "loop", keys |-> {}]]
    /\ UNCHANGED <<HELD_KEYS, HOLD_THREAD_RUNNING, worker, clicked, enigo_failed>>
    /\ UNCHANGED released
    /\ UNCHANGED notHold

\* after the loop: HOLD_THREAD_RUNNING.store(false)
HoldThreadStore(t) ==
    /\ hold_threads[t].pc = "exit"
    /\ HOLD_THREAD_RUNNING' = FALSE
    /\ hold_threads' = [hold_threads EXCEPT ![t] = [pc |-> "stopped", keys |-> {}]]
    /\ UNCHANGED <<HELD_KEYS, worker, clicked, enigo_failed>>
    /\ UNCHANGED released
    /\ UNCHANGED notHold

\* println!("Hold thread stopped"), the closure's locals are dropped, the thread ends
HoldThreadReturn(t) ==
    /\ hold_threads[t].pc = "stopped"
    /\ hold_threads' = [hold_threads EXCEPT ![t] = NoThread]
    /\ UNCHANGED <<HELD_KEYS, HOLD_THREAD_RUNNING, worker, clicked, enigo_failed>>
    /\ UNCHANGED released
    /\ UNCHANGED notHold

HoldThreadStep(t) ==
    \/ HoldThreadStart(t)
    \/ HoldThreadSnapshot(t)
    \/ HoldThreadClick(t)
    \/ HoldThreadSleep(t)
    \/ HoldThreadStore(t)
    \/ HoldThreadReturn(t)

NextHold ==
    \/ ExecuteHoldInsert
    \/ ExecuteHoldSpawn
    \/ ExecuteRelease
    \/ ExecuteReleaseAll
    \/ \E t \in HoldThreadIds : HoldThreadStep(t)

(***************************************************************************)
(* commands.rs: key chords and shift selections sent through Enigo         *)
(***************************************************************************)
\* An execution in progress: the keys the synthetic keyboard holds down, the
\* calls made so far, the calls that will fail, the last call's result, and
\* the function's return ("running" until it returns).
Exec(entry, fails) ==
    [pressed |-> entry, log |-> <<>>, n |-> 0, fails |-> fails,
     last_ok |-> TRUE, result_ok |-> TRUE, ret |-> "running"]

\* what a successful enigo.key(key, direction) leaves held down
KeyEffect(held, key, direction) ==
    CASE direction = "Press" -> held \cup {key}
      [] direction = "Release" -> held \ {key}
      [] OTHER -> held

\* enigo.key(key, direction): the n-th call fails when n is in fails
Key(st, key, direction) ==
    IF st.ret # "running" THEN st
    ELSE LET ok == (st.n + 1) \notin st.fails IN
         [st EXCEPT !.n = st.n + 1,
                    !.log = Append(st.log, [key |-> key, direction |-> direction, ok |-> ok]),
                    !.pressed = IF ok THEN KeyEffect(st.pressed, key, direction) ELSE st.pressed,
                    !.last_ok = ok]

\* the ? operator on the last call: an error returns from the function
Try(st) ==
    IF st.ret = "running" /\ ~st.last_ok THEN [st EXCEPT !.ret = "Err"] ELSE st

Return(st, value) ==
    IF st.ret = "running" THEN [st EXCEPT !.ret = value] ELSE st

ChordCommands ==
    {"select all", "copy", "copy that", "paste", "cut", "undo", "redo",
     "save", "find", "close", "close tab", "new tab"}

SingleCommands == ChordCommands \cup {"enter", "tab", "left", "backspace", "help", "bogus"}

ChordLetter(cmd) ==
    CASE cmd = "select all" -> "a"
      [] cmd \in {"copy", "copy that"} -> "c"
      [] cmd = "paste" -> "v"
      [] cmd = "cut" -> "x"
      [] cmd = "undo" -> "z"
      [] cmd = "save" -> "s"
      [] cmd = "find" -> "f"
      [] cmd \in {"close", "close tab"} -> "w"
      [] OTHER -> "t"

\* Control down, the letter clicked, Control up, each call followed by ?
Chord(st, letter) ==
    LET a == Try(Key(st, Named("Control"), "Press"))
        b == Try(Key(a, Unicode(letter), "Click"))
    IN  Try(Key(b, Named("Control"), "Release"))

Redo(st) ==
    LET a == Try(Key(st, Named("Control"), "Press"))
        b == Try(Key(a, Named("Shift"), "Press"))
        c == Try(Key(b, Unicode("z"), "Click"))
        d == Try(Key(c, Named("Shift"), "Release"))
    IN  Try(Key(d, Named("Control"), "Release"))

execute_single_builtin_command(st, cmd) ==
    CASE cmd = "redo" -> Return(Redo(st), "Ok(true)")
      [] cmd \in ChordCommands \ {"redo"} -> Return(Chord(st, ChordLetter(cmd)), "Ok(true)")
      [] cmd = "enter" -> Return(Try(Key(st, Named("Return"), "Click")), "Ok(true)")
      [] cmd = "tab" -> Return(Try(Key(st, Named("Tab"), "Click")), "Ok(true)")
      [] cmd = "left" -> Return(Try(Key(st, Named("LeftArrow"), "Click")), "Ok(true)")
      [] cmd = "backspace" -> Return(Try(Key(st, Named("Backspace"), "Click")), "Ok(true)")
      [] cmd = "help" -> Return(st, "Ok(true)")
      [] OTHER -> Return(st, "Ok(false)")

ShiftBases == {"left", "word left", "word right", "end", "bogus"}

ShiftClick(base) ==
    CASE base = "left" -> Named("LeftArrow")
      [] base = "word left" -> Named("LeftArrow")
      [] base = "word right" -> Named("RightArrow")
      [] OTHER -> Named("End")

\* one iteration of the loop of execute_shift, up to the value of `result`
ShiftMatch(st, base) ==
    CASE base \in {"word left", "word right"} ->
            LET a == Try(Key(st, Named("Control"), "Press"))
                r == Key(a, ShiftClick(base), "Click")
                c == Try(Key(r, Named("Control"), "Release"))
            IN  [c EXCEPT !.result_ok = r.last_ok]
      [] base \in {"left", "end"} ->
            LET r == Key(st, ShiftClick(base), "Click")
            IN  [r EXCEPT !.result_ok = r.last_ok]
      [] OTHER -> Return(Try(Key(st, Named("Shift"), "Release")), "Ok(false)")

\* if result.is_err(): release Shift and return the error
ShiftAfterMatch(st) ==
    IF st.ret = "running" /\ ~st.result_ok
    THEN Return(Try(Key(st, Named("Shift"), "Release")), "Err")
    ELSE st

RECURSIVE ShiftLoop(_, _, _)
ShiftLoop(st, base, left) ==
    IF left = 0 \/ st.ret # "running" THEN st
    ELSE ShiftLoop(ShiftAfterMatch(ShiftMatch(st, base)), base, left - 1)

Max(a, b) == IF a >= b THEN a ELSE b

\* count is what parse_times_suffix found: 0 when the command has no suffix
execute_shift(st, base, count) ==
    LET times == Max(count, 1)
        a == Try(Key(st, Named("Shift"), "Press"))
        b == ShiftLoop(a, base, times)
    IN  Return(Try(Key(b, Named("Shift"), "Release")), "Ok(true)")

FailSets == SUBSET (1..MaxFailAt)

NoCommand == [fn |-> "none", cmd |-> "", entry |-> {}, ret |-> "none"]

\* Option<String>
NoString == [is_some |-> FALSE, s |-> ""]
SomeString(s) == [is_some |-> TRUE, s |-> s]

NothingTyped == [text |-> "", fresh |-> FALSE]

\* the state before the first command; the history starts with the alias
\* pairs of the configuration, in the order in which the map yields them
CmdStartWith(aliases) ==
    /\ pressed = {}
    /\ keylog = <<>>
    /\ cmd_last = NoCommand @@ [aliases |-> aliases]
    /\ LAST_COMMAND = NoString
    /\ LAST_TYPED_LEN = 0
    /\ CURRENT_MODE = "Off"
    /\ typed = NothingTyped

CmdStart == CmdStartWith(<<>>)

Finish(fn, cmd, st) ==
    /\ pressed' = st.pressed
    /\ keylog' = st.log
    /\ cmd_last' = [fn |-> fn, cmd |-> cmd, entry |-> pressed, ret |-> st.ret]
    /\ UNCHANGED <<LAST_COMMAND, LAST_TYPED_LEN, CURRENT_MODE, typed>>
    /\ UNCHANGED notCmd

ExecuteSingleBuiltin ==
    \E cmd \in SingleCommands, fails \in FailSets :
        Finish("single", cmd, execute_single_builtin_command(Exec(pressed, fails), cmd))

ExecuteShift ==
    \E base \in ShiftBases, count \in 0..MaxCount, fails \in FailSets :
        Finish("shift", base, execute_shift(Exec(pressed, fails), base, count))

(***************************************************************************)
(* commands.rs, lookups.rs: execute_command and what it dispatches to.     *)
(* A transcript is the list of its words, already trimmed and lower-cased; *)
(* a typed text is a string, and chars().count() is its Len.  Each emoji   *)
(* is written as one ASCII character, standing for its one codepoint.      *)
(***************************************************************************)
\* the state of a call of execute_command: Exec and the statics it uses
Command(entry, fails) ==
    Exec(entry, fails) @@
    [LAST_COMMAND |-> LAST_COMMAND, LAST_TYPED_LEN |-> LAST_TYPED_LEN,
     CURRENT_MODE |-> CURRENT_MODE, HELD_KEYS |-> HELD_KEYS, worker |-> worker,
     typed |-> [typed EXCEPT !.fresh = FALSE]]

\* words.join(" ")
RECURSIVE Join(_)
Join(words) ==
    IF words = <<>> THEN ""
    ELSE IF Len(words) = 1 THEN words[1]
    ELSE words[1] \o " " \o Join(Tail(words))

\* enigo.text(s): like enigo.key, the n-th Enigo call fails when n is in fails
Text(st, s) ==
    IF st.ret # "running" THEN st
    ELSE LET ok == (st.n + 1) \notin st.fails IN
         [st EXCEPT !.n = st.n + 1,
                    !.log = Append(st.log, [key |-> [kind |-> "Text", ch |-> s],
                                            direction |-> "Text", ok |-> ok]),
                    !.typed = IF ok THEN [text |-> s, fresh |-> TRUE] ELSE st.typed,
                    !.last_ok = ok]

\* LAST_TYPED_LEN.store(s.chars().count())
Store(st, s) ==
    IF st.ret = "running" THEN [st EXCEPT !.LAST_TYPED_LEN = Len(s)] ELSE st

\* the caller goes on after a call that returned Ok; ? hands an Err on
Resume(st) == IF st.ret = "Err" THEN st ELSE [st EXCEPT !.ret = "running"]

\* parse_number_word: -1 is None; no transcript writes a number in digits
parse_number_word(s) ==
    CASE s = "zero" -> 0
      [] s = "one" -> 1
      [] s \in {"two", "to", "too"} -> 2
      [] s = "three" -> 3
      [] s \in {"four", "for"} -> 4
      [] s = "five" -> 5
      [] s = "six" -> 6
      [] s = "seven" -> 7
      [] s = "eight" -> 8
      [] s = "nine" -> 9
      [] s = "ten" -> 10
      [] s = "eleven" -> 11
      [] s = "twelve" -> 12
      [] s = "thirteen" -> 13
      [] s = "fourteen" -> 14
      [] s = "fifteen" -> 15
      [] s = "sixteen" -> 16
      [] s = "seventeen" -> 17
      [] s = "eighteen" -> 18
      [] s = "nineteen" -> 19
      [] s = "twenty" -> 20
      [] OTHER -> -1

\* parse_times_suffix: "... times N", else "... N times", else no count
parse_times_suffix(cmd) ==
    LET n == Len(cmd) IN
    IF n >= 3 /\ cmd[n - 1] = "times" /\ parse_number_word(cmd[n]) >= 0
    THEN [base_cmd |-> SubSeq(cmd, 1, n - 2), count |-> parse_number_word(cmd[n])]
    ELSE IF n >= 2 /\ cmd[n] = "times" /\ parse_number_word(cmd[n - 1]) >= 0
    THEN [base_cmd |-> SubSeq(cmd, 1, n - 2), count |-> parse_number_word(cmd[n - 1])]
    ELSE [base_cmd |-> cmd, count |-> 0]

execute_emoji(st, name) ==
    LET emoji == CASE name \in {"fire", "lit"} -> "F"
                   [] name \in {"smile", "happy"} -> "S"
                   [] OTHER -> ""
    IN  IF emoji = "" THEN Return(st, "Ok(false)")
        ELSE Return(Try(Text(st, emoji)), "Ok(true)")

execute_punctuation(st, punct) ==
    LET symbol == CASE punct \in {"period", "dot", "full stop", "point"} -> "."
                    [] punct \in {"ellipsis", "ellipses", "dot dot dot"} -> "..."
                    [] OTHER -> ""
    IN  IF symbol = "" THEN Return(st, "Ok(false)")
        ELSE Return(Try(Text(st, symbol)), "Ok(true)")

\* the loop of execute_spell_mode: word_to_char, to_ascii_uppercase
RECURSIVE Spell(_, _)
Spell(words, next_capital) ==
    IF words = <<>> THEN ""
    ELSE IF words[1] \in {"capital", "cap", "uppercase", "upper"}
    THEN Spell(Tail(words), TRUE)
    ELSE LET ch == CASE words[1] \in {"alpha", "alfa"} -> "a"
                     [] words[1] = "bravo" -> "b"
                     [] OTHER -> ""
             up == CASE ch = "a" -> "A" [] ch = "b" -> "B" [] OTHER -> ""
         IN  IF ch = "" THEN Spell(Tail(words), next_capital)
             ELSE (IF next_capital THEN up ELSE ch) \o Spell(Tail(words), FALSE)

execute_spell_mode(st, input) ==
    LET result == Spell(input, FALSE) IN
    IF result = "" THEN Return(st, "Ok(false)")
    ELSE Return(Try(Text(st, result)), "Ok(true)")

\* for _ in 0..repeat_count { execute_single_builtin_command(..)?; }
RECURSIVE RepeatLoop(_, _, _)
RepeatLoop(st, cmd_to_repeat, left) ==
    IF left = 0 \/ st.ret # "running" THEN st
    ELSE RepeatLoop(Resume(execute_single_builtin_command(st, cmd_to_repeat)),
                    cmd_to_repeat, left - 1)

\* for _ in 0..len { enigo.key(Backspace, Click)?; }
RECURSIVE ScratchLoop(_, _)
ScratchLoop(st, left) ==
    IF left = 0 \/ st.ret # "running" THEN st
    ELSE ScratchLoop(Try(Key(st, Named("Backspace"), "Click")), left - 1)

\* for i in 0..count.max(1): Ok(false) from the command returns Ok(false)
RECURSIVE CountLoop(_, _, _)
CountLoop(st, base_cmd, left) ==
    IF left = 0 \/ st.ret # "running" THEN st
    ELSE LET r == execute_single_builtin_command(st, base_cmd) IN
         IF r.ret = "Ok(false)" THEN r ELSE CountLoop(Resume(r), base_cmd, left - 1)

\* *last = Some(base_cmd.to_string())
StoreLastCommand(st, base_cmd) ==
    IF st.ret = "running" THEN [st EXCEPT !.LAST_COMMAND = SomeString(base_cmd)] ELSE st

\* parse_mode_name: "" is None
parse_mode_name(name) ==
    CASE name \in {"off", "normal", "default"} -> "Off"
      [] name \in {"snake", "snek"} -> "Snake"
      [] name = "camel" -> "Camel"
      [] name = "pascal" -> "Pascal"
      [] name \in {"kebab", "kebob"} -> "Kebab"
      [] name \in {"screaming", "scream", "yelling", "yell"} -> "Screaming"
      [] name \in {"caps", "upper", "uppercase", "capital", "capitals"} -> "Caps"
      [] name \in {"lower", "lowercase"} -> "Lower"
      [] name \in {"math", "maths", "numeral", "numerals", "numbers"} -> "Math"
      [] name \in {"code", "coding", "programming", "symbols"} -> "Code"
      [] name \in {"alternating", "alternate", "spongebob", "mocking"} -> "Alternating"
      [] name \in {"swearing", "swear", "grawlix", "censored", "censor"} -> "Swearing"
      [] OTHER -> ""

\* a mode command that switches the mode off when it is already set
execute_mode_toggling(st, mode_name) ==
    LET mode == parse_mode_name(mode_name) IN
    IF mode # ""
    THEN Return([st EXCEPT !.CURRENT_MODE = IF @ = mode THEN "Off" ELSE mode], "Ok(true)")
    ELSE Return(st, "Ok(false)")

\* execute_mode and set_case_mode
execute_mode(st, mode_name) ==
    LET mode == parse_mode_name(mode_name) IN
    IF mode # "" THEN Return([st EXCEPT !.CURRENT_MODE = mode], "Ok(true)")
    ELSE Return(st, "Ok(false)")

\* a hold command that takes any name for a key
execute_hold_any(st, key_name) ==
    Return([st EXCEPT !.HELD_KEYS = HeldInsert(st.HELD_KEYS, Unicode(key_name)),
                      !.worker = [pc |-> "hold_spawn", key |-> Unicode(key_name)]],
           "Ok(true)")

\* execute_hold up to spawn_hold_thread, which ExecuteHoldSpawn carries out
execute_hold(st, key_name) ==
    LET key == parse_key_name(key_name) IN
    IF key = None THEN Return(st, "Ok(false)")
    ELSE Return([st EXCEPT !.HELD_KEYS = HeldInsert(st.HELD_KEYS, key),
                           !.worker = [pc |-> "hold_spawn", key |-> key]], "Ok(true)")

execute_release(st, key_name) ==
    LET key == parse_key_name(key_name) IN
    IF key = None THEN Return(st, "Ok(false)")
    ELSE Return([st EXCEPT !.HELD_KEYS = HeldRemove(st.HELD_KEYS, key)], "Ok(true)")

\* a release of all keys that also forgets the last command
execute_release_all_forgetting(st) ==
    Return([st EXCEPT !.HELD_KEYS = {}, !.LAST_COMMAND = NoString], "Ok(true)")

execute_release_all(st) ==
    Return([st EXCEPT !.HELD_KEYS = {}], "Ok(true)")

\* no transcript below begins with shift
execute_builtin_command(st, cmd) ==
    LET parsed == parse_times_suffix(cmd)
        base_cmd == parsed.base_cmd
        count == parsed.count
    IN  CASE base_cmd # <<>> /\ base_cmd[1] = "repeat" ->
               LET repeat_count ==
                       IF Len(base_cmd) = 1 THEN Max(count, 1)
                       ELSE Max(IF parse_number_word(base_cmd[2]) >= 0
                                THEN parse_number_word(base_cmd[2]) ELSE 1, 1)
                            * Max(count, 1)
               IN  IF st.LAST_COMMAND.is_some
                   THEN Return(RepeatLoop(st, st.LAST_COMMAND.s, repeat_count), "Ok(true)")
                   ELSE Return(st, "Ok(false)")
          [] base_cmd # <<>> /\ base_cmd[1] = "spell" /\ Len(base_cmd) >= 2 ->
               execute_spell_mode(st, Tail(base_cmd))
          [] base_cmd # <<>> /\ base_cmd[1] = "hold" /\ Len(base_cmd) >= 2 ->
               execute_hold(st, Join(Tail(base_cmd)))
          [] Join(base_cmd) \in {"release all", "release"} ->
               execute_release_all(st)
          [] base_cmd # <<>> /\ base_cmd[1] = "release" /\ Len(base_cmd) >= 2 ->
               execute_release(st, Join(Tail(base_cmd)))
          [] Join(base_cmd) \in {"scratch that", "undo", "scratch"} ->
               LET len == st.LAST_TYPED_LEN
                   swapped == [st EXCEPT !.LAST_TYPED_LEN = 0]
               IN  IF len > 0 THEN Return(ScratchLoop(swapped, len), "Ok(true)")
                   ELSE Return(swapped, "Ok(false)")
          [] base_cmd # <<>> /\ base_cmd[1] = "mode" /\ Len(base_cmd) >= 2 ->
               execute_mode(st, Join(Tail(base_cmd)))
          [] OTHER ->
               Return(StoreLastCommand(CountLoop(st, Join(base_cmd), Max(count, 1)),
                                       Join(base_cmd)), "Ok(true)")

\* Config::leader_word; the inserts and wrappers of the configuration
Leader == "command"
Inserts == [name \in {"sig"} |-> "bye"]
Wrappers == [name \in {"parens"} |-> [left |-> "(", right |-> ")"]]

\* execute_command after the leader word: cmd is the rest, as words
LeaderCommand(st, cmd) ==
         CASE cmd[1] = "emoji" /\ Len(cmd) >= 2 -> execute_emoji(st, Join(Tail(cmd)))
           [] cmd[1] \in {"punctuation", "punk"} /\ Len(cmd) >= 2 ->
                execute_punctuation(st, Join(Tail(cmd)))
           [] cmd[1] = "insert" /\ Len(cmd) >= 2 ->
                IF Join(Tail(cmd)) \in DOMAIN Inserts
                THEN LET expanded == Inserts[Join(Tail(cmd))] IN
                     Return(Store(Try(Text(st, expanded)), expanded), "Ok(true)")
                ELSE Return(st, "Ok(false)")
           [] cmd[1] = "wrap" /\ Len(cmd) >= 2 ->
                IF cmd[2] \in DOMAIN Wrappers
                THEN LET wrapped == Wrappers[cmd[2]].left \o Join(Tail(Tail(cmd)))
                                    \o Wrappers[cmd[2]].right
                     IN  Return(Store(Try(Text(st, wrapped)), wrapped), "Ok(true)")
                ELSE Return(st, "Ok(false)")
           [] OTHER -> execute_builtin_command(st, cmd)

\* execute_command on a transcript given as lower-case words, with no
\* aliases and no custom commands configured, while the case mode is Off
execute_command(st, text) ==
    IF Len(text) >= 2 /\ text[1] = Leader
    THEN LeaderCommand(st, Tail(text))
    ELSE LET output == Join(text) IN
         Return(Store(Try(Text(st, output)), output), "Ok(false)")

Transcripts ==
    {<<"hi">>,
     <<"command", "emoji", "fire">>,
     <<"command", "punctuation", "ellipsis">>,
     <<"command", "spell", "alpha", "cap", "bravo">>,
     <<"command", "insert", "sig">>, <<"command", "wrap", "parens", "hi">>,
     <<"command", "scratch", "that">>,
     <<"command", "backspace", "times", "three">>,
     <<"command", "enter", "two", "times">>,
     <<"command", "repeat">>, <<"command", "repeat", "two">>,
     <<"command", "bogus">>, <<"command", "undo">>,
     <<"command", "enter", "times", "zero">>}

\* every Enigo call of execute_command is followed by ?, so the first call
\* that fails is the last one made
FirstFailures == {{}} \cup {{i} : i \in 1..MaxFailAt}

\* one transcript handed to execute_command by the processor thread; the
\* history keeps whether the command before it typed text, and which command
\* that was unless it returned an error
ExecuteCommand ==
    \E text \in Transcripts, fails \in FirstFailures :
        LET before == Command(pressed, fails)
            st == execute_command(before, text)
        IN  /\ pressed' = st.pressed
            /\ keylog' = st.log
            /\ cmd_last' = [fn |-> "command", cmd |-> Join(text), entry |-> pressed,
                            ret |-> st.ret, typed_before |-> typed.fresh,
                            prev |-> IF cmd_last.ret = "Err" THEN "Err" ELSE cmd_last.cmd]
            /\ LAST_COMMAND' = st.LAST_COMMAND
            /\ LAST_TYPED_LEN' = st.LAST_TYPED_LEN
            /\ typed' = st.typed
            /\ UNCHANGED CURRENT_MODE
            /\ UNCHANGED notCmd

NextCmd ==
    \/ ExecuteSingleBuiltin
    \/ ExecuteShift

(***************************************************************************)
(* commands.rs: aliases and case modes.  Here a text is the sequence of    *)
(* its characters, all of them ASCII, and the only whitespace is " ".      *)
(***************************************************************************)
Lowers == <<"a", "b", "c", "d", "e", "f", "g", "h", "i", "j", "k", "l", "m", "n", "o", "p", "q", "r", "s", "t", "u", "v", "w", "x", "y", "z">>
Uppers == <<"A", "B", "C", "D", "E", "F", "G", "H", "I", "J", "K", "L", "M", "N", "O", "P", "Q", "R", "S", "T", "U", "V", "W", "X", "Y", "Z">>
Digits == {"0", "1", "2", "3", "4", "5", "6", "7", "8", "9"}

LowerOf == [c \in {Uppers[i] : i \in 1..26} |->
                Lowers[CHOOSE i \in 1..26 : Uppers[i] = c]]
UpperOf == [c \in {Lowers[i] : i \in 1..26} |->
                Uppers[CHOOSE i \in 1..26 : Lowers[i] = c]]
Alphanumeric == DOMAIN LowerOf \cup DOMAIN UpperOf \cup Digits

\* char::to_lowercase, char::to_uppercase
to_lowercase(c) == IF c \in DOMAIN LowerOf THEN LowerOf[c] ELSE c
to_uppercase(c) == IF c \in DOMAIN UpperOf THEN UpperOf[c] ELSE c

\* str::to_lowercase, str::to_uppercase
LowerCase(text) == [i \in 1..Len(text) |-> to_lowercase(text[i])]
UpperCase(text) == [i \in 1..Len(text) |-> to_uppercase(text[i])]

\* c.is_alphanumeric() || c.is_whitespace()
Kept(c) == c \in Alphanumeric \/ c = " "

\* the String of a text
RECURSIVE Str(_)
Str(text) == IF text = <<>> THEN "" ELSE text[1] \o Str(Tail(text))

\* str::find: the first position at which needle occurs, 0 for None
Find(hay, needle) ==
    LET at == {i \in 1..(Len(hay) - Len(needle) + 1) :
                   SubSeq(hay, i, i + Len(needle) - 1) = needle}
    IN  IF at = {} THEN 0 ELSE CHOOSE i \in at : \A j \in at : i <= j

\* the while loop of normalize_aliases for one pair, on result[search_start..]
RECURSIVE ReplaceAll(_, _, _)
ReplaceAll(rest, from, to) ==
    LET pos == Find(LowerCase(rest), LowerCase(from)) IN
    IF pos = 0 THEN rest
    ELSE SubSeq(rest, 1, pos - 1) \o to
         \o ReplaceAll(SubSeq(rest, pos + Len(from), Len(rest)), from, to)

\* normalize_aliases that also lower-cases what it does not replace
RECURSIVE normalize_aliases_lowering(_, _)
normalize_aliases_lowering(text, aliases) ==
    IF aliases = <<>> THEN LowerCase(text)
    ELSE normalize_aliases_lowering(ReplaceAll(text, aliases[1].from, aliases[1].to),
                                    Tail(aliases))

\* normalize_aliases: aliases lists the pairs of the map in iteration order
RECURSIVE normalize_aliases(_, _)
normalize_aliases(text, aliases) ==
    IF aliases = <<>> THEN text
    ELSE normalize_aliases(ReplaceAll(text, aliases[1].from, aliases[1].to),
                           Tail(aliases))

\* str::trim
RECURSIVE trim(_)
trim(text) ==
    IF text = <<>> THEN text
    ELSE IF text[1] = " " THEN trim(Tail(text))
    ELSE IF text[Len(text)] = " " THEN trim(SubSeq(text, 1, Len(text) - 1))
    ELSE text

\* str::split_whitespace
RECURSIVE split_whitespace(_)
split_whitespace(text) ==
    LET t == trim(text)
        sp == Find(t, <<" ">>)
    IN  IF t = <<>> THEN <<>>
        ELSE IF sp = 0 THEN <<t>>
        ELSE <<SubSeq(t, 1, sp - 1)>> \o split_whitespace(SubSeq(t, sp + 1, Len(t)))

\* words.join(sep)
RECURSIVE JoinChars(_, _)
JoinChars(words, sep) ==
    IF words = <<>> THEN <<>>
    ELSE IF Len(words) = 1 THEN words[1]
    ELSE words[1] \o sep \o JoinChars(Tail(words), sep)

capitalize_word(w) == IF w = <<>> THEN w ELSE <<to_uppercase(w[1])>> \o Tail(w)

\* a case mode that types the text as dictated
apply_case_mode_off(mode, text) == text

\* apply_case_mode; no utterance below selects math, code, alternating or
\* swearing
apply_case_mode(mode, text) ==
    LET words == split_whitespace(text)
        lower == [i \in 1..Len(words) |-> LowerCase(words[i])]
        upper == [i \in 1..Len(words) |-> UpperCase(words[i])]
        capital == [i \in 1..Len(words) |-> capitalize_word(lower[i])]
    IN  IF mode = "Off" \/ words = <<>> THEN text
        ELSE CASE mode = "Snake" -> JoinChars(lower, <<"_">>)
               [] mode = "Camel" -> lower[1] \o JoinChars(Tail(capital), <<>>)
               [] mode = "Pascal" -> JoinChars(capital, <<>>)
               [] mode = "Kebab" -> JoinChars(lower, <<"-">>)
               [] mode = "Screaming" -> JoinChars(upper, <<"_">>)
               [] mode = "Caps" -> JoinChars(upper, <<" ">>)
               [] mode = "Lower" -> JoinChars(lower, <<" ">>)
               [] OTHER -> text

\* format!("{} ", leader.to_lowercase())
LeaderPrefix == <<"c", "o", "m", "m", "a", "n", "d", " ">>

\* aliased.trim(), filtered and lower-cased
Trimmed(aliased) == LowerCase(SelectSeq(trim(aliased), Kept))

\* trimmed.strip_prefix(&leader_prefix) is Some
HasLeader(trimmed) ==
    /\ Len(trimmed) >= Len(LeaderPrefix)
    /\ SubSeq(trimmed, 1, Len(LeaderPrefix)) = LeaderPrefix

\* execute_command on the characters of a transcript; no custom commands are
\* configured
execute_command_text(st, text, aliases) ==
    LET aliased == normalize_aliases(text, aliases)
        trimmed == Trimmed(aliased)
    IN  IF HasLeader(trimmed)
        THEN LET after_leader == SubSeq(trimmed, Len(LeaderPrefix) + 1, Len(trimmed))
                 words == split_whitespace(after_leader)
                 cmd == [i \in 1..Len(words) |-> Str(words[i])]
             IN  IF cmd = <<>> THEN execute_builtin_command(st, cmd)
                 ELSE LeaderCommand(st, cmd)
        ELSE LET output == Str(apply_case_mode(st.CURRENT_MODE, aliased)) IN
             Return(Store(Try(Text(st, output)), output), "Ok(false)")

\* what is said, and the alias maps of the configuration
Utterances ==
    {<<"H", "e", "l", "l", "o", " ", "W", "o", "r", "l", "d">>,
     <<"l", "a", "u", "n", "c", "h", " ", "E", " ", "m", "a", "x">>,
     <<"c", "o", "m", "m", "e", "n", "d", " ", "e", "n", "t", "e", "r">>,
     <<"c", "o", "m", "m", "a", "n", "d", " ", "e", "n", "t", "e", "r">>,
     <<"C", "o", "m", "m", "a", "n", "d", " ", "m", "o", "d", "e", " ", "s", "n", "a", "k", "e", ".">>,
     <<"c", "o", "m", "m", "a", "n", "d", " ", "m", "o", "d", "e", " ", "o", "f", "f">>,
     <<"c", "o", "m", "m", "a", "n", "d", " ", "m", "o", "d", "e", " ", "b", "o", "g", "u", "s">>,
     <<"c", "o", "m", "m", "a", "n", "d", " ", "r", "e", "l", "e", "a", "s", "e", " ", "a", "l", "l">>,
     <<"c", "o", "m", "m", "a", "n", "d", " ", "r", "e", "l", "e", "a", "s", "e">>,
     <<"c", "o", "m", "m", "a", "n", "d", " ", "h", "o", "l", "d", " ", "s", "h", "i", "f", "t">>,
     <<"c", "o", "m", "m", "a", "n", "d", " ", "h", "o", "l", "d", " ", "b", "o", "g", "u", "s">>,
     <<"c", "o", "m", "m", "a", "n", "d", " ", "r", "e", "l", "e", "a", "s", "e", " ", "b", "o", "g", "u", "s">>,
     <<"c", "o", "m", "m", "a", "n", "d", " ", "e", "m", "o", "j", "i", " ", "b", "o", "g", "u", "s">>,
     <<"c", "o", "m", "m", "a", "n", "d", " ", "p", "u", "n", "c", "t", "u", "a", "t", "i", "o", "n", " ", "b", "o", "g", "u", "s">>,
     <<"c", "o", "m", "m", "a", "n", "d", " ", "s", "p", "e", "l", "l", " ", "b", "o", "g", "u", "s">>,
     <<"c", "o", "m", "m", "a", "n", "d", " ", "s", "p", "e", "l", "l", " ", "a", "l", "p", "h", "a", " ", "b", "o", "g", "u", "s">>,
     <<"c", "o", "m", "m", "a", "n", "d", " ", "i", "n", "s", "e", "r", "t", " ", "b", "o", "g", "u", "s">>,
     <<"c", "o", "m", "m", "a", "n", "d", " ", "w", "r", "a", "p", " ", "b", "o", "g", "u", "s", " ", "h", "i">>,
     <<"c", "o", "m", "m", "a", "n", "d", " ", "b", "o", "g", "u", "s">>}

AliasMaps ==
    {<<>>,
     <<[from |-> <<"e", " ", "m", "a", "x">>, to |-> <<"e", "m", "a", "c", "s">>],
       [from |-> <<"c", "o", "m", "m", "e", "n", "d">>, to |-> <<"c", "o", "m", "m", "a", "n", "d">>]>>}

\* no utterance above makes more than one Enigo call
FirstCallFails == {{}, {1}}

\* one utterance handed to execute_command by the processor thread, with the
\* aliases of the configuration; the history keeps the text, and whether it
\* is the text of the utterance before
Utter(text, fails) ==
    \E st \in {execute_command_text(Command(pressed, fails), text, cmd_last.aliases)} :
    /\ worker.pc = "idle"
    /\ pressed' = st.pressed
    /\ keylog' = st.log
    /\ cmd_last' = [fn |-> "utterance", cmd |-> Str(text), entry |-> pressed,
                    ret |-> st.ret, text |-> text, aliases |-> cmd_last.aliases,
                    again |-> (cmd_last.fn = "utterance" /\ cmd_last.text = text)]
    /\ LAST_COMMAND' = st.LAST_COMMAND
    /\ LAST_TYPED_LEN' = st.LAST_TYPED_LEN
    /\ CURRENT_MODE' = st.CURRENT_MODE
    /\ typed' = st.typed
    /\ HELD_KEYS' = st.HELD_KEYS
    /\ worker' = st.worker
    /\ UNCHANGED <<HOLD_THREAD_RUNNING, hold_threads, clicked, enigo_failed, released>>
    /\ UNCHANGED <<hotkeyVars, vadVars, scanVars>>

ExecuteUtterance ==
    \E text \in Utterances, fails \in FirstCallFails : Utter(text, fails)


(***************************************************************************)
(* vad.rs: the voice activity detector                                     *)
(***************************************************************************)
VAD_SAMPLE_RATE == 16000
VAD_CHUNK_SIZE == 512

\* A Vec<f32> of fed samples is the sequence of the stream positions it
\* holds, written as runs <<lo, hi>> of consecutive positions lo..hi-1; two
\* runs are joined exactly when the second continues the first, so equal
\* sample sequences have equal representations.
Run(lo, hi) == <<lo, hi>>

RECURSIVE Size(_)
Size(runs) ==
    IF runs = <<>> THEN 0 ELSE (runs[1][2] - runs[1][1]) + Size(Tail(runs))

\* Vec::push of the samples of one run
AppendRun(runs, r) ==
    IF r[1] >= r[2] THEN runs
    ELSE IF runs # <<>> /\ runs[Len(runs)][2] = r[1]
         THEN [runs EXCEPT ![Len(runs)] = Run(runs[Len(runs)][1], r[2])]
         ELSE Append(runs, r)

\* Vec::extend_from_slice
RECURSIVE Extend(_, _)
Extend(runs, more) ==
    IF more = <<>> THEN runs ELSE Extend(AppendRun(runs, more[1]), Tail(more))

\* &v[..k]
RECURSIVE Take(_, _)
Take(runs, k) ==
    IF k <= 0 \/ runs = <<>> THEN <<>>
    ELSE LET len == runs[1][2] - runs[1][1] IN
         IF len <= k THEN <<runs[1]>> \o Take(Tail(runs), k - len)
         ELSE <<Run(runs[1][1], runs[1][1] + k)>>

\* v.drain(..k)
RECURSIVE Drain(_, _)
Drain(runs, k) ==
    IF k <= 0 \/ runs = <<>> THEN runs
    ELSE LET len == runs[1][2] - runs[1][1] IN
         IF len <= k THEN Drain(Tail(runs), k - len)
         ELSE <<Run(runs[1][1] + k, runs[1][2])>> \o Tail(runs)

\* Option<Instant>
NoInstant == [is_some |-> FALSE, at |-> 0]
Some(t) == [is_some |-> TRUE, at |-> t]

\* Instant::elapsed, in ms
Elapsed(instant, t) == t - instant.at

StateChanged(state) == [type |-> "StateChanged", state |-> state, audio |-> <<>>]
WakeWordCheckReady(audio) == [type |-> "WakeWordCheckReady", state |-> "", audio |-> audio]
ReadyToProcess(audio) == [type |-> "ReadyToProcess", state |-> "", audio |-> audio]

\* sensitivity in thousandths; the times in ms
VadConfigs ==
    {[sensitivity |-> 900, silence_ms |-> 1000, min_speech_ms |-> 200, speech_pad_ms |-> 300],
     [sensitivity |-> 500, silence_ms |-> 500, min_speech_ms |-> 2000, speech_pad_ms |-> 20]}

DefaultVadConfig ==
    [sensitivity |-> 900, silence_ms |-> 1000, min_speech_ms |-> 200, speech_pad_ms |-> 300]

\* Vad::new
VadNew(c) ==
    [state |-> "Idle",
     audio_buffer |-> <<>>,
     pre_buffer |-> <<>>,
     pre_buffer_max |-> (VAD_SAMPLE_RATE * c.speech_pad_ms) \div 1000,
     silence_start |-> NoInstant,
     speech_start |-> NoInstant,
     sensitivity |-> c.sensitivity,
     silence_ms |-> c.silence_ms,
     min_speech_ms |-> c.min_speech_ms,
     speech_pad_ms |-> c.speech_pad_ms,
     chunk_buffer |-> <<>>,
     wake_word_enabled |-> FALSE,
     wake_word_check_samples |-> (VAD_SAMPLE_RATE * 12) \div 10,
     wake_word_check_emitted |-> FALSE]

\* the utterance under way: the stream position of the frame that crossed
\* the threshold, the wake-word checks emitted for the utterance, and whether
\* wake-word mode has been on since it began; abort_at is the stream position
\* at the last abort_utterance that took effect, end_at the end of the frame
\* at which the silence timeout last ended an utterance (-1: not recorded)
NoUtterance ==
    [cross |-> 0, ww_count |-> 0, ww_payload |-> <<>>, ww_state |-> "",
     ww_enabled |-> FALSE, ww_on |-> FALSE, abort_at |-> -1, end_at |-> -1]

VadStartWith(c, history) ==
    /\ vad = VadNew(c)
    /\ now = 0
    /\ fed = 0
    /\ feeds = 0
    /\ events = <<>>
    /\ utt = [NoUtterance EXCEPT !.abort_at = IF history THEN 0 ELSE -1,
                                 !.end_at = IF history THEN 0 ELSE -1]

VadStart(c) == VadStartWith(c, FALSE)

\* set_wake_word_enabled
SetWakeWordEnabled ==
    /\ \E enabled \in BOOLEAN :
          /\ vad' = [vad EXCEPT !.wake_word_enabled = enabled]
          /\ utt' = [utt EXCEPT !.ww_on = utt.ww_on /\ enabled]
    /\ events' = <<>>
    /\ UNCHANGED <<now, fed, feeds>>
    /\ UNCHANGED notVad

\* what start_listening, stop_listening, abort_utterance and reset all clear
\* clears that leave the frame buffer as it is
ClearedButFrames(v) ==
    [v EXCEPT !.audio_buffer = <<>>,
              !.silence_start = NoInstant,
              !.speech_start = NoInstant,
              !.wake_word_check_emitted = FALSE]

Cleared(v) ==
    [v EXCEPT !.audio_buffer = <<>>,
              !.chunk_buffer = <<>>,
              !.silence_start = NoInstant,
              !.speech_start = NoInstant,
              !.wake_word_check_emitted = FALSE]

\* start_listening
StartListening ==
    /\ IF vad.state = "Idle"
       THEN /\ vad' = [Cleared(vad) EXCEPT !.state = "Listening", !.pre_buffer = <<>>]
            /\ events' = <<StateChanged("Listening")>>
       ELSE /\ UNCHANGED vad
            /\ events' = <<>>
    /\ UNCHANGED <<now, fed, feeds, utt>>
    /\ UNCHANGED notVad

\* stop_listening
StopListening ==
    /\ IF vad.state # "Idle"
       THEN /\ vad' = [Cleared(vad) EXCEPT !.state = "Idle", !.pre_buffer = <<>>]
            /\ events' = <<StateChanged("Idle")>>
       ELSE /\ UNCHANGED vad
            /\ events' = <<>>
    /\ UNCHANGED <<now, fed, feeds, utt>>
    /\ UNCHANGED notVad

\* an abort that leaves the frame buffer as it is
AbortedKeepingFrames(v) == [ClearedButFrames(v) EXCEPT !.state = "Listening"]

\* the detector after an abort_utterance that takes effect
Aborted(v) == [Cleared(v) EXCEPT !.state = "Listening"]

\* abort_utterance: the pre-roll buffer is left as it is
AbortUtterance ==
    /\ IF vad.state \in {"Speaking", "SilenceDetected"}
       THEN /\ vad' = Aborted(vad)
            /\ events' = <<StateChanged("Listening")>>
            /\ utt' = [utt EXCEPT !.abort_at = IF @ = -1 THEN -1 ELSE fed]
       ELSE /\ UNCHANGED <<vad, utt>>
            /\ events' = <<>>
    /\ UNCHANGED <<now, fed, feeds>>
    /\ UNCHANGED notVad

\* reset
Reset ==
    /\ vad' = [Cleared(vad) EXCEPT !.pre_buffer = <<>>,
                                   !.state = IF vad.state # "Idle" THEN "Listening" ELSE "Idle"]
    /\ events' = <<>>
    /\ UNCHANGED <<now, fed, feeds, utt>>
    /\ UNCHANGED notVad

\* Time passes between two calls. The clock is read only through elapsed()
\* of speech_start and silence_start, so it is advanced only while
\* speech_start is set.
Tick ==
    /\ vad.speech_start.is_some
    /\ now < MaxTicks * TickMs
    /\ now' = now + TickMs
    /\ UNCHANGED <<vad, fed, feeds, events, utt>>
    /\ UNCHANGED notVad

\* threshold = 1.0 - sensitivity * 0.8, in thousandths
Threshold(sensitivity) == 1000 - (sensitivity * 8) \div 10

IsSpeech(v, probability) == probability >= Threshold(v.sensitivity)

\* a pre-roll buffer that is never trimmed
KeepPreBuffer(extended, pre_buffer_max) == extended

\* if pre_buffer.len() > pre_buffer_max: drain the excess from the front
TrimPreBuffer(extended, pre_buffer_max) ==
    IF Size(extended) > pre_buffer_max
    THEN Drain(extended, Size(extended) - pre_buffer_max)
    ELSE extended

\* the Listening arm of feed
Listening(st, chunk, is_speech) ==
    LET v == st.vad
        extended == Extend(v.pre_buffer, chunk)
        pre == TrimPreBuffer(extended, v.pre_buffer_max)
    IN  IF is_speech
        THEN [st EXCEPT !.vad = [v EXCEPT !.state = "Speaking",
                                          !.speech_start = Some(st.now),
                                          !.audio_buffer = Extend(Extend(<<>>, pre), chunk),
                                          !.pre_buffer = <<>>],
                        !.events = Append(st.events, StateChanged("Speaking")),
                        !.utt = [cross |-> chunk[1][1],
                                 ww_count |-> 0, ww_payload |-> <<>>, ww_state |-> "",
                                 ww_enabled |-> FALSE, ww_on |-> v.wake_word_enabled,
                                 abort_at |-> st.utt.abort_at,
                                 end_at |-> st.utt.end_at]]
        ELSE [st EXCEPT !.vad = [v EXCEPT !.pre_buffer = pre]]

\* a wake-word check that does not look at wake_word_check_emitted
WakeWordDueAgain(v) ==
    /\ v.wake_word_enabled
    /\ Size(v.audio_buffer) >= v.wake_word_check_samples

\* a wake-word check is due: the mode is on, no check was emitted for this
\* utterance, and the buffer holds wake_word_check_samples
WakeWordDue(v) ==
    /\ v.wake_word_enabled
    /\ ~v.wake_word_check_emitted
    /\ Size(v.audio_buffer) >= v.wake_word_check_samples

\* the Speaking arm of feed
Speaking(st, chunk, is_speech) ==
    LET v0 == st.vad
        v1 == [v0 EXCEPT !.audio_buffer = Extend(v0.audio_buffer, chunk)]
        check_audio == Take(v1.audio_buffer, v1.wake_word_check_samples)
        s2 == IF WakeWordDue(v1)
              THEN [st EXCEPT !.vad = [v1 EXCEPT !.wake_word_check_emitted = TRUE],
                              !.events = Append(st.events, WakeWordCheckReady(check_audio)),
                              !.utt = [st.utt EXCEPT !.ww_count = st.utt.ww_count + 1,
                                                     !.ww_payload = check_audio,
                                                     !.ww_state = v1.state,
                                                     !.ww_enabled = v1.wake_word_enabled]]
              ELSE [st EXCEPT !.vad = v1]
    IN  IF ~is_speech
        THEN [s2 EXCEPT !.vad = [s2.vad EXCEPT !.state = "SilenceDetected",
                                               !.silence_start = Some(st.now)],
                        !.events = Append(s2.events, StateChanged("SilenceDetected"))]
        ELSE s2

\* a silence that is over as soon as it began
SilenceOverAtOnce(v, t) == v.silence_start.is_some

\* if let Some(silence_start) = self.silence_start, and
\* silence_start.elapsed() >= silence_ms + speech_pad_ms
SilenceOver(v, t) ==
    /\ v.silence_start.is_some
    /\ Elapsed(v.silence_start, t) >= v.silence_ms + v.speech_pad_ms

\* the SilenceDetected arm of feed
SilenceDetected(st, chunk, is_speech) ==
    LET v0 == st.vad
        v1 == [v0 EXCEPT !.audio_buffer = Extend(v0.audio_buffer, chunk)]
        speech_duration == IF v1.speech_start.is_some
                           THEN Elapsed(v1.speech_start, st.now) ELSE 0
        valid == speech_duration >= v1.min_speech_ms
    IN  IF is_speech
        THEN [st EXCEPT !.vad = [v1 EXCEPT !.state = "Speaking",
                                           !.silence_start = NoInstant],
                        !.events = Append(st.events, StateChanged("Speaking"))]
        ELSE IF SilenceOver(v1, st.now)
        THEN [st EXCEPT !.vad = [v1 EXCEPT !.audio_buffer =
                                               IF valid THEN <<>> ELSE v1.audio_buffer,
                                           !.state = "Listening",
                                           !.silence_start = NoInstant,
                                           !.speech_start = NoInstant,
                                           !.chunk_buffer = <<>>,
                                           !.wake_word_check_emitted = FALSE],
                        !.events = (IF valid
                                    THEN Append(st.events, ReadyToProcess(v1.audio_buffer))
                                    ELSE st.events)
                                   \o <<StateChanged("Listening")>>,
                        !.utt = [st.utt EXCEPT !.end_at = IF @ = -1 THEN -1
                                                          ELSE chunk[Len(chunk)][2]]]
        ELSE [st EXCEPT !.vad = v1]

\* a loop condition that leaves a whole frame behind
FrameReadyLate(chunk_buffer) == Size(chunk_buffer) > VAD_CHUNK_SIZE

\* while self.chunk_buffer.len() >= VAD_CHUNK_SIZE
FrameReady(chunk_buffer) == Size(chunk_buffer) >= VAD_CHUNK_SIZE

\* the loop of feed: one probability for all the frames of the call
RECURSIVE ProcessChunks(_, _)
ProcessChunks(st, probability) ==
    IF ~FrameReady(st.vad.chunk_buffer) THEN st
    ELSE LET chunk == Take(st.vad.chunk_buffer, VAD_CHUNK_SIZE)
             drained == [st EXCEPT !.vad.chunk_buffer =
                                       Drain(st.vad.chunk_buffer, VAD_CHUNK_SIZE)]
             is_speech == IsSpeech(st.vad, probability)
             next == CASE st.vad.state = "Listening" -> Listening(drained, chunk, is_speech)
                       [] st.vad.state = "Speaking" -> Speaking(drained, chunk, is_speech)
                       [] st.vad.state = "SilenceDetected" ->
                              SilenceDetected(drained, chunk, is_speech)
                       [] OTHER -> drained
         IN  ProcessChunks(next, probability)

\* sizes of the slices passed to feed, and the detector's answers (thousandths)
FeedSizes == {768, 9728}
Probabilities == {200, 700}

\* a slice of 60 frames, about 1.9 s of audio
LongFeedSizes == {60 * VAD_CHUNK_SIZE}

\* feed: in Idle the samples are dropped at once
FeedFrom(sizes, limit) ==
    /\ feeds < limit
    /\ \E n \in sizes, probability \in Probabilities :
          IF vad.state = "Idle"
          THEN /\ events' = <<>>
               /\ UNCHANGED <<vad, utt, fed, feeds>>
          ELSE LET samples == <<Run(fed, fed + n)>>
                   st == [vad |-> [vad EXCEPT !.chunk_buffer =
                                                  Extend(vad.chunk_buffer, samples)],
                          events |-> <<>>, utt |-> utt, now |-> now]
                   done == ProcessChunks(st, probability)
               IN  /\ vad' = done.vad
                   /\ events' = done.events
                   /\ utt' = done.utt
                   /\ fed' = fed + n
                   /\ feeds' = feeds + 1
    /\ UNCHANGED now
    /\ UNCHANGED notVad

Feed == FeedFrom(FeedSizes, MaxFeeds)

FeedLong == FeedFrom(LongFeedSizes, MaxLongFeeds)

NextVad ==
    \/ SetWakeWordEnabled
    \/ StartListening
    \/ StopListening
    \/ AbortUtterance
    \/ Reset
    \/ Tick
    \/ Feed

(***************************************************************************)
(* commands.rs: the loops of normalize_aliases and expand_env_vars, one    *)
(* iteration a step.                                                       *)
(***************************************************************************)
NoSubst == [pc |-> "idle"]
NoExpand == [pc |-> "idle"]

\* neither function is being called
ScanStart ==
    /\ subst = NoSubst
    /\ expand = NoExpand

\* texts handed to normalize_aliases
AliasTexts ==
    {<<>>, <<"a">>, <<"a", "b">>, <<"a", "b", "a">>, <<"A", " ", "b">>, <<"b", "b">>}

\* alias maps, the pairs in iteration order: a replacement that contains its
\* own from, two pairs that undo each other, a from that is removed, and
\* pairs whose from is the empty string
LoopAliasMaps ==
    {<<>>,
     <<[from |-> <<"a">>, to |-> <<"a", "a">>]>>,
     <<[from |-> <<"a">>, to |-> <<"b">>], [from |-> <<"b">>, to |-> <<"a">>]>>,
     <<[from |-> <<"a", "b">>, to |-> <<>>]>>,
     <<[from |-> <<>>, to |-> <<"x">>]>>,
     <<[from |-> <<>>, to |-> <<>>]>>}

\* normalize_aliases is entered: let mut result = text.to_string()
AliasCall(text, aliases) ==
    [pc |-> "for", text |-> text, map |-> aliases, aliases |-> aliases,
     result |-> text, new_result |-> <<>>, search_start |-> 0]

AliasStart(text, aliases) == subst = AliasCall(text, aliases)

\* for (from, to) in aliases: the next pair, or the return of result
AliasFor ==
    /\ subst.pc = "for"
    /\ subst' = IF subst.aliases = <<>>
                THEN [subst EXCEPT !.pc = "done"]
                ELSE [subst EXCEPT !.pc = "while", !.new_result = <<>>,
                                   !.search_start = 0]
    /\ UNCHANGED expand
    /\ UNCHANGED notScan

\* result[search_start..].to_lowercase().find(&from_lower): 0 is None
AliasPos(sb) ==
    Find(LowerCase(SubSeq(sb.result, sb.search_start + 1, Len(sb.result))),
         LowerCase(sb.aliases[1].from))

\* while let Some(pos) = ...: a match is found
AliasWhile ==
    /\ subst.pc = "while"
    /\ AliasPos(subst) # 0
    /\ subst' = [subst EXCEPT !.pc = "body"]
    /\ UNCHANGED expand
    /\ UNCHANGED notScan

\* the body of the while loop: the text before the match and the replacement
\* are appended, and search_start moves past the match
AliasBody ==
    /\ subst.pc = "body"
    /\ LET abs_pos == subst.search_start + (AliasPos(subst) - 1)
           new_result == subst.new_result
                         \o SubSeq(subst.result, subst.search_start + 1, abs_pos)
                         \o subst.aliases[1].to
       IN  /\ Len(new_result) <= MaxNewResult
           /\ subst' = [subst EXCEPT !.pc = "while",
                                     !.new_result = new_result,
                                     !.search_start = abs_pos + Len(subst.aliases[1].from)]
    /\ UNCHANGED expand
    /\ UNCHANGED notScan

\* the loop is left: the rest is appended and result replaced
AliasWhileEnd ==
    /\ subst.pc = "while"
    /\ AliasPos(subst) = 0
    /\ subst' = [subst EXCEPT !.pc = "for",
                              !.result = subst.new_result
                                         \o SubSeq(subst.result, subst.search_start + 1,
                                                   Len(subst.result)),
                              !.aliases = Tail(subst.aliases)]
    /\ UNCHANGED expand
    /\ UNCHANGED notScan

NextAlias ==
    \/ AliasFor
    \/ AliasWhile
    \/ AliasBody
    \/ AliasWhileEnd

\* tx.send(audio_data): a capture path puts an utterance on the queue
SendAudio ==
    /\ recording_id < MaxUtterances
    /\ recording_id' = recording_id + 1
    /\ audio_tx' = Append(audio_tx, [rec |-> recording_id + 1, samples |-> <<1>>])
    /\ UNCHANGED <<RECORDING, RECORDING_SESSION, CALLBACK_COUNT, config, buffer, kb,
                   key_down, timeouts, stream, processor, buffer_rec, last_close,
                   interpreted>>
    /\ UNCHANGED notHotkey

\* the processor's loop body ends in one of the three arms that only log:
\* Err of resample_audio, Err of transcribe, or an empty text
ProcDrop ==
    /\ processor.pc = "busy"
    /\ \E outcome \in ProcOutcomes \ {"text"} :
          processor' = [pc |-> "recv", audio_data |-> NoAudio, outcome |-> outcome]
    /\ UNCHANGED <<RECORDING, RECORDING_SESSION, CALLBACK_COUNT, config, buffer, kb,
                   key_down, timeouts, stream, audio_tx, recording_id, buffer_rec,
                   last_close, interpreted>>
    /\ UNCHANGED notHotkey

\* a non-empty text: execute_command is called with cfg.aliases and begins
\* with normalize_aliases
ProcExecute ==
    /\ processor.pc = "busy"
    /\ processor' = [processor EXCEPT !.pc = "execute"]
    /\ \E text \in AliasTexts \ {<<>>} : subst' = AliasCall(text, config.aliases)
    /\ UNCHANGED expand
    /\ UNCHANGED <<RECORDING, RECORDING_SESSION, CALLBACK_COUNT, config, buffer, kb,
                   key_down, timeouts, stream, audio_tx, recording_id, buffer_rec,
                   last_close, interpreted>>
    /\ UNCHANGED <<holdVars, cmdVars, vadVars>>

\* execute_command returns, Ok or Err, and the loop takes the next job
ProcReturn ==
    /\ processor.pc = "execute"
    /\ subst.pc = "done"
    /\ processor' = [pc |-> "recv", audio_data |-> NoAudio]
    /\ interpreted' = Remember(interpreted, processor.audio_data.rec)
    /\ subst' = NoSubst
    /\ UNCHANGED expand
    /\ UNCHANGED <<RECORDING, RECORDING_SESSION, CALLBACK_COUNT, config, buffer, kb,
                   key_down, timeouts, stream, audio_tx, recording_id, buffer_rec,
                   last_close>>
    /\ UNCHANGED <<holdVars, cmdVars, vadVars>>

\* the steps of the processor thread
ProcessorStep ==
    \/ ProcRecv
    \/ ProcDrop
    \/ ProcExecute
    \/ NextAlias
    \/ ProcReturn

NextProc ==
    \/ SendAudio
    \/ ProcessorStep

\* the environment: the variables that are set, by name
Environments ==
    {("A" :> <<"v">>) @@ ("B" :> <<"w">>),
     ("A" :> <<"$", "B">>) @@ ("B" :> <<"w">>),
     ("A" :> <<"$", "A">>),
     ("A" :> <<"$", "B">>) @@ ("B" :> <<"$", "A">>),
     ("A" :> <<"x", "$", "A">>)}

\* shell commands of the configuration
ShellCommands ==
    {<<"a", "b">>,
     <<"$", "A">>,
     <<"a", "$">>,
     <<"$", " ", "$", "A">>,
     <<"$", "A", "$", "B">>,
     <<"$", "U", "/", "$", "B">>,
     <<"$", "A", "_", "1">>}

\* std::env::var(var_name).unwrap_or_default()
EnvVar(env, var_name) ==
    IF Str(var_name) \in DOMAIN env THEN env[Str(var_name)] ELSE <<>>

\* rest.find(|c| !c.is_alphanumeric() && c != '_').unwrap_or(rest.len())
NameEnd(rest) ==
    LET other == {i \in 1..Len(rest) : rest[i] \notin Alphanumeric \cup {"_"}}
    IN  IF other = {} THEN Len(rest)
        ELSE (CHOOSE i \in other : \A j \in other : i <= j) - 1

\* execute_custom_command is entered: let mut result = s.to_string()
ExpandStart(cmd, env) ==
    expand = [pc |-> "while", cmd |-> cmd, env |-> env, result |-> cmd]

\* the name after the first `$` of result
VarName(result) ==
    LET rest == SubSeq(result, Find(result, <<"$">>) + 1, Len(result))
    IN  SubSeq(rest, 1, NameEnd(rest))

\* while let Some(start) = result.find('$'): a `$` is found
ExpandWhile ==
    /\ expand.pc = "while"
    /\ Find(expand.result, <<"$">>) # 0
    /\ expand' = [expand EXCEPT !.pc = "body"]
    /\ UNCHANGED subst
    /\ UNCHANGED notScan

\* the loop is left: result holds no `$`
ExpandWhileEnd ==
    /\ expand.pc = "while"
    /\ Find(expand.result, <<"$">>) = 0
    /\ expand' = [expand EXCEPT !.pc = "expanded"]
    /\ UNCHANGED subst
    /\ UNCHANGED notScan

\* if var_name.is_empty() { break; }
ExpandBreak ==
    /\ expand.pc = "body"
    /\ VarName(expand.result) = <<>>
    /\ expand' = [expand EXCEPT !.pc = "expanded"]
    /\ UNCHANGED subst
    /\ UNCHANGED notScan

\* the body of the while loop: the name is replaced by the variable's value
ExpandReplace ==
    /\ expand.pc = "body"
    /\ VarName(expand.result) # <<>>
    /\ LET start == Find(expand.result, <<"$">>)
           var_name == VarName(expand.result)
           result == SubSeq(expand.result, 1, start - 1)
                     \o EnvVar(expand.env, var_name)
                     \o SubSeq(expand.result, start + 1 + Len(var_name), Len(expand.result))
       IN  /\ Len(result) <= MaxExpanded
           /\ expand' = [expand EXCEPT !.pc = "while", !.result = result]
    /\ UNCHANGED subst
    /\ UNCHANGED notScan

\* execute_custom_command: an expansion of whitespace is not run
ExecuteCustom ==
    /\ expand.pc = "expanded"
    /\ expand' = [expand EXCEPT !.pc = IF trim(expand.result) = <<>>
                                       THEN "skipped" ELSE "spawned"]
    /\ UNCHANGED subst
    /\ UNCHANGED notScan

NextExpand ==
    \/ ExpandWhile
    \/ ExpandWhileEnd
    \/ ExpandBreak
    \/ ExpandReplace
    \/ ExecuteCustom

(***************************************************************************)
(* Specifications                                                          *)
(***************************************************************************)
HotkeyConfigs == [hotkey_mode : HotkeyModes, toggle_timeout_secs : ToggleTimeouts]

InitHotkey ==
    /\ \E c \in HotkeyConfigs : HotkeyStart(c)
    /\ ScanStart
    /\ HoldStart
    /\ CmdStart
    /\ VadStart(DefaultVadConfig)

InitHold ==
    /\ HotkeyStart(DefaultConfig)
    /\ ScanStart
    /\ HoldStart
    /\ CmdStart
    /\ VadStart(DefaultVadConfig)

InitCmd ==
    /\ HotkeyStart(DefaultConfig)
    /\ ScanStart
    /\ HoldStart
    /\ CmdStart
    /\ VadStart(DefaultVadConfig)

SpecHold == InitHold /\ [][NextHold]_vars

\* every spawned thread is scheduled: each of its steps is eventually taken
SpecHoldFair == SpecHold /\ \A t \in HoldThreadIds : WF_vars(HoldThreadStep(t))

\* the hold commands with the history of releases kept
InitRelease ==
    /\ HotkeyStart(DefaultConfig)
    /\ ScanStart
    /\ HoldStartWith(TRUE)
    /\ CmdStart
    /\ VadStart(DefaultVadConfig)

SpecRelease == InitRelease /\ [][NextHold]_vars

SpecText == InitCmd /\ [][ExecuteCommand]_vars

\* utterances and the spawning of the repeat thread; the thread is not run
NextMode ==
    \/ ExecuteUtterance
    \/ ExecuteHoldSpawn

InitMode ==
    /\ HotkeyStart(DefaultConfig)
    /\ ScanStart
    /\ HoldStart
    /\ \E aliases \in AliasMaps : CmdStartWith(aliases)
    /\ VadStart(DefaultVadConfig)

SpecMode == InitMode /\ [][NextMode]_vars

SpecCmd == InitCmd /\ [][NextCmd]_vars

InitVad ==
    /\ HotkeyStart(DefaultConfig)
    /\ ScanStart
    /\ HoldStart
    /\ CmdStart
    /\ \E c \in VadConfigs : VadStart(c)

\* the detector fed long slices back to back: no time passes between the calls
NextLong ==
    \/ StartListening
    \/ FeedLong

SpecLong == InitVad /\ [][NextLong]_vars

SpecVad == InitVad /\ [][NextVad]_vars

\* the detector with the position of the last abort recorded
InitAbort ==
    /\ HotkeyStart(DefaultConfig)
    /\ ScanStart
    /\ HoldStart
    /\ CmdStart
    /\ VadStartWith(DefaultVadConfig, TRUE)

NextAbort ==
    \/ StartListening
    \/ AbortUtterance
    \/ Tick
    \/ Feed

SpecAbort == InitAbort /\ [][NextAbort]_vars

SpecHotkey == InitHotkey /\ [][NextHotkey]_vars

\* the hotkey thread, the configuration watcher and the audio callback, with
\* the timeout tasks and the processor left waiting
NextKeys ==
    \/ ConfigReload
    \/ KeyPress
    \/ KeyRelease
    \/ KbPressLoad
    \/ KbReleaseLoad
    \/ KbStop
    \/ KbSendClone
    \/ KbSendTx
    \/ KbStartClear
    \/ KbStartCount
    \/ KbStartSession
    \/ KbStartStore
    \/ StreamCount
    \/ StreamLoad
    \/ StreamPush

SpecKeys == InitHotkey /\ [][NextKeys]_vars

\* one call of normalize_aliases
InitAlias ==
    /\ HotkeyStart(DefaultConfig)
    /\ HoldStart
    /\ CmdStart
    /\ VadStart(DefaultVadConfig)
    /\ \E text \in AliasTexts, aliases \in LoopAliasMaps : AliasStart(text, aliases)
    /\ expand = NoExpand

SpecAlias == InitAlias /\ [][NextAlias]_vars

\* the worker thread that called normalize_aliases keeps running
SpecAliasFair == SpecAlias /\ WF_vars(NextAlias)

\* one call of execute_custom_command
InitExpand ==
    /\ HotkeyStart(DefaultConfig)
    /\ HoldStart
    /\ CmdStart
    /\ VadStart(DefaultVadConfig)
    /\ subst = NoSubst
    /\ \E cmd \in ShellCommands, env \in Environments : ExpandStart(cmd, env)

SpecExpand == InitExpand /\ [][NextExpand]_vars

\* the worker thread that called execute_custom_command keeps running
SpecExpandFair == SpecExpand /\ WF_vars(NextExpand)

\* the processor thread with the alias map of the configuration
InitProc ==
    /\ \E aliases \in LoopAliasMaps : HotkeyStart([aliases |-> aliases] @@ DefaultConfig)
    /\ ScanStart
    /\ HoldStart
    /\ CmdStart
    /\ VadStart(DefaultVadConfig)

SpecProc == InitProc /\ [][NextProc]_vars

\* the processor thread is scheduled whenever it can take a step
SpecProcFair == SpecProc /\ WF_vars(ProcessorStep)

(***************************************************************************)
(* Properties                                                              *)
(***************************************************************************)
(***************************************************************************)
(* C1: a timeout task spawned for recording session s never sets RECORDING *)
(* from true to false while the recording under way belongs to another     *)
(* session: whenever a timeout thread stored false over true, its          *)
(* session_id was the value of RECORDING_SESSION at that moment.           *)
(***************************************************************************)
C1_StaleTimeoutClosesNothing ==
    (last_close.by = "timeout" /\ last_close.was_recording)
        => last_close.session_id = last_close.session

(***************************************************************************)
(* C4: utterances reach execute_command in the order in which their        *)
(* captures ended: of two utterances interpreted one after the other, the  *)
(* second is not the audio of an earlier recording than the first.         *)
(***************************************************************************)
C4_InterpretedInCaptureOrder ==
    Len(interpreted) = 2 => interpreted[1] <= interpreted[2]


(***************************************************************************)
(* C2: at most one repeat thread owns the running flag at any moment (a    *)
(* thread that has cleared the flag may still be returning while its       *)
(* successor starts), the flag is set exactly while some thread owns it,   *)
(* and once HELD_KEYS is empty and stays empty every repeat thread         *)
(* eventually ends and HOLD_THREAD_RUNNING is false from then on.          *)
(***************************************************************************)
C2_OneRepeatThread ==
    /\ [](Cardinality(Running) <= 1 /\ (HOLD_THREAD_RUNNING <=> Running # {}))
    /\ (<>[](HELD_KEYS = {}) => <>[](Alive = {} /\ ~HOLD_THREAD_RUNNING))

\* a thread that found HELD_KEYS empty is about to clear the flag
C2_Witness ==
    /\ \E t \in HoldThreadIds : hold_threads[t].pc = "exit"
    /\ HELD_KEYS = {}
    /\ HOLD_THREAD_RUNNING

\* C2 as stated: no two repeat threads exist at the same moment
C2_AtMostOneAlive == Cardinality(Alive) <= 1

(***************************************************************************)
(* C3: when a hold command has completed and a key is in HELD_KEYS, a      *)
(* repeat thread that will click the held keys is running (the Enigo       *)
(* instance of the thread having been created).                            *)
(***************************************************************************)
C3_HeldKeyHasRepeatThread ==
    (worker.pc = "idle" /\ HELD_KEYS # {} /\ ~enigo_failed) => Repeating # {}

(***************************************************************************)
(* C5: an editing chord entered with no key in Press state returns with    *)
(* no key in Press state, whatever key action of the chord returned an     *)
(* error (a Release that itself failed excepted).                          *)
(***************************************************************************)
C5_ChordRestoresPressed ==
    (/\ cmd_last.fn = "single"
     /\ cmd_last.cmd \in ChordCommands
     /\ cmd_last.entry = {}
     /\ \A i \in 1..Len(keylog) : keylog[i].direction = "Release" => keylog[i].ok)
        => pressed = cmd_last.entry

(***************************************************************************)
(* C6: when execute_shift has pressed Shift, the last key action it issues *)
(* before it returns is the Release of Shift, on every exit path.          *)
(***************************************************************************)
C6_ShiftReleasedOnExit ==
    (cmd_last.fn = "shift" /\ keylog # <<>> /\ keylog[1].ok)
        => /\ keylog[Len(keylog)].key = Named("Shift")
           /\ keylog[Len(keylog)].direction = "Release"

\* the events of one type among those the last call returned
Returned(type) == {i \in 1..Len(events) : events[i].type = type}

(***************************************************************************)
(* C7: every utterance emitted as ReadyToProcess has at least              *)
(* min_speech_ms * 16 samples.                                             *)
(***************************************************************************)
C7_UtteranceHasMinSpeech ==
    \A i \in Returned("ReadyToProcess") :
        Size(events[i].audio) >= vad.min_speech_ms * (VAD_SAMPLE_RATE \div 1000)

(***************************************************************************)
(* C8: every utterance emitted as ReadyToProcess starts with k samples,    *)
(* k at most speech_pad_ms * 16, that are the k samples fed last before    *)
(* the frame that crossed the threshold, followed by that frame; and the   *)
(* pre-roll buffer is empty while Speaking or SilenceDetected.             *)
(***************************************************************************)
C8_UtteranceStartsWithPreRoll ==
    /\ \A i \in Returned("ReadyToProcess") :
          LET audio == events[i].audio
              k == utt.cross - audio[1][1]
          IN  /\ 0 <= k
              /\ k <= vad.speech_pad_ms * (VAD_SAMPLE_RATE \div 1000)
              /\ Take(audio, k + VAD_CHUNK_SIZE) = <<Run(utt.cross - k, utt.cross + VAD_CHUNK_SIZE)>>
    /\ vad.state \in {"Speaking", "SilenceDetected"} => vad.pre_buffer = <<>>

(***************************************************************************)
(* C9: when wake-word mode has been on since the utterance began, no       *)
(* ReadyToProcess is emitted for it unless a WakeWordCheckReady was        *)
(* emitted for it earlier.                                                 *)
(***************************************************************************)
C9_ReadyOnlyAfterWakeWordCheck ==
    (Returned("ReadyToProcess") # {} /\ utt.ww_on) => utt.ww_count >= 1

(***************************************************************************)
(* C10: for one utterance WakeWordCheckReady is emitted at most once, only *)
(* with wake-word mode on, only in state Speaking, and its payload is the  *)
(* first 19200 samples of the utterance buffer; in Listening and Idle      *)
(* wake_word_check_emitted is false.                                       *)
(***************************************************************************)
C10_WakeWordCheckOnce ==
    /\ utt.ww_count <= 1
    /\ Cardinality(Returned("WakeWordCheckReady")) <= 1
    /\ utt.ww_count = 1 =>
          /\ utt.ww_enabled
          /\ utt.ww_state = "Speaking"
          /\ Size(utt.ww_payload) = 19200
          /\ vad.state \in {"Speaking", "SilenceDetected"} =>
                /\ vad.wake_word_check_emitted
                /\ utt.ww_payload = Take(vad.audio_buffer, 19200)
    /\ \A i \in Returned("WakeWordCheckReady") : events[i].audio = utt.ww_payload
    /\ vad.state \in {"Listening", "Idle"} => ~vad.wake_word_check_emitted

\* a check was emitted and the utterance went on into silence
C10_Witness ==
    /\ utt.ww_count = 1
    /\ vad.state = "SilenceDetected"
    /\ vad.wake_word_check_emitted
    /\ Size(vad.audio_buffer) > 19200

\* the key actions of the last command are exactly k successful Backspace clicks
BackspaceClicks(k) ==
    /\ Len(keylog) = k
    /\ \A i \in 1..Len(keylog) :
          keylog[i] = [key |-> Named("Backspace"), direction |-> "Click", ok |-> TRUE]

\* C11: the transcript `command backspace times three` followed by the
\* transcript `command repeat` issues three Backspace clicks and then three
\* more: repeat re-executes the previous command with its repetition count.
C11_RepeatKeepsCount ==
    (/\ cmd_last.fn = "command"
     /\ cmd_last.cmd = "command repeat"
     /\ cmd_last.ret = "Ok(true)"
     /\ cmd_last.prev = "command backspace times three")
    => BackspaceClicks(3)

\* C12: when text of n characters has just been typed and no Enigo call
\* fails, `scratch that` issues exactly n Backspace clicks, sets
\* LAST_TYPED_LEN to 0 and reports executed; a further `scratch that` issues
\* none and reports not executed.
C12_ScratchRemovesTypedText ==
    (/\ cmd_last.fn = "command"
     /\ cmd_last.cmd = "command scratch that"
     /\ \A i \in 1..Len(keylog) : keylog[i].ok)
    => /\ LAST_TYPED_LEN = 0
       /\ cmd_last.typed_before
            => BackspaceClicks(Len(typed.text)) /\ cmd_last.ret = "Ok(true)"
       /\ cmd_last.prev = "command scratch that"
            => keylog = <<>> /\ cmd_last.ret = "Ok(false)"

\* C13: after every command that typed text, LAST_TYPED_LEN is the character
\* count of the text just typed (1 after `command emoji fire`).
C13_LastTypedLenIsTypedLength ==
    typed.fresh => LAST_TYPED_LEN = Len(typed.text)

\* C14: HELD_KEYS treats two different letter keys as distinct members: when
\* execute_hold has done its insert, the key it was given is a member of the
\* set (after `hold w` and `hold a` the set contains both).
C14_HeldKeysDistinct ==
    worker.pc = "hold_spawn" => worker.key \in HELD_KEYS

\* C15: a key released by `release KEY` or `release all` while the repeat
\* thread was sleeping is not clicked by a repeat thread again unless a hold
\* command has named it since.
C15_ReleasedNotClicked ==
    [][(\E t \in HoldThreadIds : HoldThreadClick(t)) => clicked' \cap released.keys = {}]_vars

\* a repeat thread is about to click its snapshot after a release made during
\* a sleep
C15_Witness ==
    /\ released.keys # {}
    /\ \E t \in HoldThreadIds : hold_threads[t].pc = "click" /\ hold_threads[t].keys # {}

\* C16: the audio callback appends to the capture buffer only while the
\* capture gate is open: under every interleaving with the hotkey thread and
\* the timeout tasks, no sample is appended in a state where RECORDING is
\* false.
C16_AppendOnlyWhileOpen ==
    [][Len(buffer') > Len(buffer) => RECORDING]_vars

\* C17: in toggle behaviour with a 5 s timeout, after a press that started
\* recording (session 1) and a press that stopped it, the press that starts
\* recording again makes the recording-session id 3: the id advances when
\* recording stops and again when it starts.
C17_ThirdPressStartsSessionThree ==
    (/\ kb.pc = "start_store"
     /\ kb.is_toggle_mode
     /\ kb.toggle_timeout = 5
     /\ recording_id = 2
     /\ last_close.by = "hotkey"
     /\ last_close.was_recording
     /\ last_close.session = 1)
    => RECORDING_SESSION = 3

\* C18: in every reachable state the utterance buffer holds at most
\* 30 * 16000 samples: speech that goes on beyond 30 seconds is truncated.
C18_UtteranceAtMostThirtySeconds ==
    Size(vad.audio_buffer) <= 30 * VAD_SAMPLE_RATE

\* C19: in every reachable state the pre-roll buffer holds at most
\* speech_pad_ms * 16 samples.
C19_PreRollAtMostPad ==
    Size(vad.pre_buffer) <= vad.speech_pad_ms * 16

\* the pre-roll buffer is full: the frame just added made the Listening arm
\* drop samples from its front
C19_Witness ==
    /\ vad.state = "Listening"
    /\ Size(vad.pre_buffer) = vad.speech_pad_ms * 16
    /\ fed > Size(vad.pre_buffer) + Size(vad.chunk_buffer)

\* C20: every change of the detector's state, whichever operation makes it,
\* is reported by a StateChanged event carrying the new state among the
\* events the operation returns, and an operation that leaves the state as
\* it was returns no StateChanged event.
C20_EveryTransitionReported ==
    [][/\ vad'.state # vad.state =>
             \E i \in 1..Len(events') : events'[i] = StateChanged(vad'.state)
       /\ (vad'.state = vad.state /\ feeds' = feeds) =>
             \A i \in 1..Len(events') : events'[i].type # "StateChanged"]_vars

\* C21: whenever the detector goes from a non-Idle state to Idle, the
\* utterance buffer, the frame buffer and the pre-roll buffer are empty
\* afterwards, both timestamps are cleared and the wake-word-check flag is
\* false; and a feed made while Idle returns no event and changes nothing.
C21_IdleClearsAndDrops ==
    [][/\ (vad.state # "Idle" /\ vad'.state = "Idle") =>
             /\ vad'.audio_buffer = <<>>
             /\ vad'.chunk_buffer = <<>>
             /\ vad'.pre_buffer = <<>>
             /\ vad'.silence_start = NoInstant
             /\ vad'.speech_start = NoInstant
             /\ ~vad'.wake_word_check_emitted
       /\ (vad.state = "Idle" /\ Feed) => (events' = <<>> /\ vad' = vad)]_vars

\* stop_listening has just stopped a detector that held a partial frame
C21_Witness ==
    /\ vad.state = "Idle"
    /\ events = <<StateChanged("Idle")>>
    /\ fed % VAD_CHUNK_SIZE # 0

\* the last k samples fed so far, as a frame buffer
LastFed(k, upto) == IF k = 0 THEN <<>> ELSE <<Run(upto - k, upto)>>

\* what a feed that took samples in leaves in the frame buffer when nothing
\* is discarded: the samples beyond the last whole frame
RemainderKept ==
    vad'.chunk_buffer =
        LastFed((Size(vad.chunk_buffer) + (fed' - fed)) % VAD_CHUNK_SIZE, fed')

C23_AbortDiscardsTheUtterance ==
    /\ [](\A i \in Returned("ReadyToProcess") :
             \A j \in 1..Len(events[i].audio) : events[i].audio[j][1] >= utt.abort_at)
    /\ [][AbortUtterance =>
             IF vad.state \in {"Speaking", "SilenceDetected"}
             THEN /\ vad'.state = "Listening"
                  /\ events' = <<StateChanged("Listening")>>
             ELSE /\ vad' = vad
                  /\ events' = <<>>]_vars

\* an utterance is emitted after an earlier one was aborted part-way through
\* a frame
C23_Witness ==
    /\ Returned("ReadyToProcess") # {}
    /\ utt.abort_at > 0
    /\ utt.abort_at % VAD_CHUNK_SIZE # 0

\* the last call of execute_command typed the text it was given
Dictated ==
    /\ cmd_last.fn = "utterance"
    /\ cmd_last.ret # "Err"
    /\ CURRENT_MODE = "Off"

TypedAliased ==
    /\ typed.fresh
    /\ typed.text = Str(normalize_aliases(cmd_last.text, cmd_last.aliases))
    /\ cmd_last.aliases = <<>> => typed.text = Str(cmd_last.text)

\* C24 as stated: while Mode = Off, for every text T that does not start
\* with the leader, the text typed equals normalize_aliases(T) character for
\* character, and with an empty alias map it equals T.
C24_TypedIsAliasedText ==
    (Dictated /\ ~HasLeader(Trimmed(cmd_last.text))) => TypedAliased

\* C24, amended: while Mode = Off, for every text T whose aliased form,
\* trimmed, filtered and lower-cased, does not start with the leader, the
\* text typed equals normalize_aliases(T) character for character, and with
\* an empty alias map it equals T.
C24_TypedIsAliasedTextUnlessAliasedToLeader ==
    (Dictated /\ ~HasLeader(Trimmed(normalize_aliases(cmd_last.text, cmd_last.aliases))))
        => TypedAliased

\* "launch E max" was dictated with the alias "e max" for "emacs"
C24_Witness ==
    /\ Dictated
    /\ cmd_last.cmd = "launch E max"
    /\ cmd_last.aliases # <<>>
    /\ typed.fresh
    /\ typed.text = "launch emacs"

\* the words execute_command finds after the leader in the utterance c, none
\* if it does not find the leader
Commanded(c) ==
    LET trimmed == Trimmed(normalize_aliases(c.text, c.aliases))
        words == split_whitespace(SubSeq(trimmed, Len(LeaderPrefix) + 1, Len(trimmed)))
    IN  IF HasLeader(trimmed) THEN [i \in 1..Len(words) |-> Str(words[i])] ELSE <<>>

\* the snake form of the dictations among the utterances
SnakeForm(c) ==
    CASE c.cmd = "Hello World" -> "hello_world"
      [] c.cmd = "launch E max" ->
            IF c.aliases = <<>> THEN "launch_e_max" ELSE "launch_emacs"
      [] c.cmd = "commend enter" -> "commend_enter"
      [] OTHER -> "?"

\* C25: `command mode snake` sets Mode to Snake; an utterance that is not a
\* mode command leaves Mode as it is; and while Mode is Snake a dictation is
\* typed in snake form ("Hello World" as hello_world).
C25_ModePersists ==
    [][worker.pc = "idle" =>
          \A cmd \in {Commanded(cmd_last')} :
             /\ cmd = <<"mode", "snake">> => CURRENT_MODE' = "Snake"
             /\ (cmd = <<>> \/ cmd[1] # "mode") => CURRENT_MODE' = CURRENT_MODE
             /\ (CURRENT_MODE = "Snake" /\ cmd = <<>> /\ cmd_last'.ret # "Err")
                   => (typed'.fresh /\ typed'.text = SnakeForm(cmd_last'))]_vars

\* "Hello World" was dictated in snake mode after a command other than mode
\* had run
C25_Witness ==
    /\ CURRENT_MODE = "Snake"
    /\ LAST_COMMAND.is_some
    /\ cmd_last.cmd = "Hello World"
    /\ typed.fresh
    /\ typed.text = "hello_world"

\* C26: a mode command issued a second time in a row leaves Mode,
\* Last-Command, Last-Typed-Length and Held-Keys as the first left them, and
\* after `mode off` issued twice Mode is Off.
C26_ModeIdempotent ==
    [][(worker.pc = "idle" /\ cmd_last'.again) =>
          \A cmd \in {Commanded(cmd_last')} :
             (cmd # <<>> /\ cmd[1] = "mode") =>
                /\ UNCHANGED <<CURRENT_MODE, LAST_COMMAND, LAST_TYPED_LEN, HELD_KEYS>>
                /\ cmd = <<"mode", "off">> => CURRENT_MODE' = "Off"]_vars

\* `command mode snake` has been issued twice in a row, with a last command,
\* a typed text and a held key in place
C26_Witness ==
    /\ cmd_last.fn = "utterance"
    /\ cmd_last.again
    /\ Commanded(cmd_last) = <<"mode", "snake">>
    /\ CURRENT_MODE = "Snake"
    /\ LAST_COMMAND.is_some
    /\ LAST_TYPED_LEN > 0
    /\ HELD_KEYS # {}

\* C27: `release all` or `release` said while no key is held emits no key
\* event, leaves Held-Keys, the running flag of the repeat thread, Mode,
\* Last-Command and Last-Typed-Length as they are, and returns Ok(true).
C27_ReleaseAllOnEmptySet ==
    [][(worker.pc = "idle" /\ HELD_KEYS = {}) =>
          \A cmd \in {Commanded(cmd_last')} :
             cmd \in {<<"release", "all">>, <<"release">>} =>
                /\ keylog' = <<>>
                /\ cmd_last'.ret = "Ok(true)"
                /\ UNCHANGED <<HELD_KEYS, HOLD_THREAD_RUNNING, CURRENT_MODE,
                               LAST_COMMAND, LAST_TYPED_LEN>>]_vars

\* `command release all` has been said twice in a row, the second time with
\* no key held, while the running flag is set and a last command is stored
C27_Witness ==
    /\ cmd_last.fn = "utterance"
    /\ cmd_last.again
    /\ Commanded(cmd_last) = <<"release", "all">>
    /\ cmd_last.ret = "Ok(true)"
    /\ HELD_KEYS = {}
    /\ HOLD_THREAD_RUNNING
    /\ LAST_COMMAND.is_some

\* the command names something that does not exist
NamesUnknown(cmd) == \E i \in 1..Len(cmd) : cmd[i] = "bogus"

\* not executed: Ok(false) is returned, no text is typed, and Mode,
\* Last-Command, Last-Typed-Length and Held-Keys are left as they are
NotExecuted ==
    /\ cmd_last'.ret = "Ok(false)"
    /\ ~typed'.fresh
    /\ UNCHANGED <<CURRENT_MODE, LAST_COMMAND, LAST_TYPED_LEN, HELD_KEYS>>

C29_EveryStartIssuesNewSession ==
    [][(~RECORDING /\ RECORDING' /\ last_close.by # "none")
          => RECORDING_SESSION' > last_close.session]_vars

\* a press or a release of the hotkey that the handler finds to be neither a
\* start nor a stop: a press in hold behaviour while recording, a release in
\* toggle behaviour
NoStartNoStop ==
    \/ kb.pc = "press" /\ ~kb.is_toggle_mode /\ RECORDING
    \/ kb.pc = "release" /\ kb.is_toggle_mode

\* C30: the handler of a hotkey event that neither starts nor stops a
\* recording returns at once and leaves RECORDING, the capture buffer, the
\* callback counter, the session id and the utterance queue as they are; so
\* does the arrival of any hotkey event.
C30_IdleEventChangesNothing ==
    [][/\ (NoStartNoStop /\ kb' # kb) => kb' = KbIdle
       /\ ((kb.pc = "idle" \/ NoStartNoStop) /\ kb' # kb)
             => UNCHANGED <<RECORDING, buffer, CALLBACK_COUNT, RECORDING_SESSION,
                            audio_tx>>]_vars

\* a press in hold behaviour is being handled while a recording with samples
\* in the buffer is under way and an utterance is queued
C30_Witness ==
    /\ kb.pc = "press"
    /\ ~kb.is_toggle_mode
    /\ RECORDING
    /\ buffer # <<>>
    /\ audio_tx # <<>>

\* C31: a built-in command other than repeat that returns Ok(true), a single
\* built-in or one of shift, spell, hold, release, scratch and mode, leaves its
\* base form in Last-Command; repeat and every command that does not return
\* Ok(true) leave Last-Command as it is.
C31_LastCommandIsLastBuiltin ==
    [][worker.pc = "idle" =>
          \A cmd \in {Commanded(cmd_last')} :
             (cmd # <<>> /\ cmd[1] \notin {"emoji", "punctuation", "punk", "insert", "wrap"})
                => IF cmd_last'.ret = "Ok(true)" /\ cmd[1] # "repeat"
                   THEN LAST_COMMAND' = SomeString(Join(parse_times_suffix(cmd).base_cmd))
                   ELSE LAST_COMMAND' = LAST_COMMAND]_vars

\* C32: the built-in `undo` presses Control, clicks z and releases Control,
\* whatever Last-Typed-Length holds.
C32_UndoIsControlZ ==
    (/\ cmd_last.fn = "command"
     /\ cmd_last.cmd = "command undo"
     /\ cmd_last.ret # "Err")
    => keylog = <<[key |-> Named("Control"), direction |-> "Press", ok |-> TRUE],
                  [key |-> Unicode("z"), direction |-> "Click", ok |-> TRUE],
                  [key |-> Named("Control"), direction |-> "Release", ok |-> TRUE]>>

\* the key actions of the last command are n clicks of one key
ClicksOf(key, n) ==
    /\ Len(keylog) = n
    /\ \A i \in 1..n : keylog[i].key = key /\ keylog[i].direction = "Click"

\* C33: a built-in command ending in "times N" or "N times" executes its
\* base command exactly N times, one without such a suffix exactly once, and
\* "times" without a number next to it is not split off.
C33_TimesSuffixCounts ==
    /\ (cmd_last.fn = "command" /\ cmd_last.ret = "Ok(true)") =>
          /\ cmd_last.cmd = "command backspace times three" => ClicksOf(Named("Backspace"), 3)
          /\ cmd_last.cmd = "command enter two times" => ClicksOf(Named("Return"), 2)
          /\ cmd_last.cmd = "command enter times zero" => ClicksOf(Named("Return"), 0)
    /\ parse_times_suffix(<<"enter", "times">>) = [base_cmd |-> <<"enter", "times">>, count |-> 0]
    /\ parse_times_suffix(<<"times", "enter">>) = [base_cmd |-> <<"times", "enter">>, count |-> 0]

\* the events of the last feed hold one of the given type (and state)
Emitted(evs, type, state) ==
    \E i \in 1..Len(evs) : evs[i].type = type /\ evs[i].state = state

\* the detector waits for the next utterance with nothing left of the last
BackToListening(v) ==
    /\ v.state = "Listening"
    /\ v.chunk_buffer = <<>>
    /\ v.pre_buffer = <<>>
    /\ ~v.silence_start.is_some
    /\ ~v.speech_start.is_some

RECURSIVE ExpandedOnce(_, _)
ExpandedOnce(s, env) ==
    IF s = <<>> THEN <<>>
    ELSE LET name == SubSeq(Tail(s), 1, NameEnd(Tail(s))) IN
         IF s[1] = "$" /\ name # <<>>
         THEN EnvVar(env, name) \o ExpandedOnce(SubSeq(s, Len(name) + 2, Len(s)), env)
         ELSE <<s[1]>> \o ExpandedOnce(Tail(s), env)

\* C35: environment expansion replaces every $NAME of the command by the
\* value of NAME, or by nothing when NAME is unset, wherever it stands, also
\* after a `$` without a name, and keeps all other characters.
C35_EveryNameExpanded ==
    expand.pc \in {"expanded", "skipped", "spawned"}
        => expand.result = ExpandedOnce(expand.cmd, expand.env)

\* C39: alias substitution terminates for every text and every alias map,
\* an empty `from` and a replacement that contains its `from` included.
C39_AliasSubstitutionTerminates == <>(subst.pc = "done")

\* C40: environment expansion terminates for every command and environment,
\* a value that refers to its own or to another variable included.
C40_ExpansionTerminates == <>(expand.pc \in {"skipped", "spawned"})

\* utterance r waits on the queue
InQueue(r) == \E i \in 1..Len(audio_tx) : audio_tx[i].rec = r

\* utterance r was sent and the processor is through with it
Processed(r) ==
    /\ r <= recording_id
    /\ ~InQueue(r)
    /\ ~(processor.pc # "recv" /\ processor.audio_data.rec = r)

\* the processor has just dropped an utterance
JustDropped == processor.pc = "recv" /\ "outcome" \in DOMAIN processor

Queued == audio_tx \o (IF processor.pc = "recv" THEN <<>> ELSE <<processor.audio_data>>)

\* C37: the audio of one recording is sent to the queue at most once, however
\* a stopping key event and the timeout task of the recording interleave, and
\* an empty recording is not sent.
C37_RecordingSentAtMostOnce ==
    /\ \A i, j \in 1..Len(Queued) : Queued[i].rec = Queued[j].rec => i = j
    /\ \A i \in 1..Len(Queued) : Queued[i].samples # <<>>

\* C38: every utterance the detector emits is one contiguous run of the fed
\* stream, each sample once and in feed order, and holds no sample of an
\* earlier utterance that was emitted, dropped as too short, or aborted.
C38_UtteranceIsOneRunOfTheStream ==
    [][fed' > fed =>
          \A i \in 1..Len(events') :
             events'[i].type = "ReadyToProcess" =>
                /\ Len(events'[i].audio) = 1
                /\ events'[i].audio[1][1] >= utt.end_at
                /\ events'[i].audio[1][1] >= utt.abort_at]_vars

====
